---- MODULE Spec2Model ----
(***************************************************************************)
(* A model of lnsd, the LAN naming daemon.                                 *)
(*                                                                         *)
(*  - the announce engine (lns/net_proto.py, ProtocolHandler): the peer    *)
(*    map, the per-peer receive buffers, the heartbeat and the TTL sweep;  *)
(*  - the control engine's dispatch (lns_ng/control_proto.py);             *)
(*  - the reactor's poll as far as the daemon loop uses it                 *)
(*    (lns_ng/reactor.py);                                                 *)
(*  - the threaded announce loop (lns/proto.py, protocol_handler).         *)
(*                                                                         *)
(* Bytes are integers 0..255, byte strings are sequences of them.  An ip   *)
(* address is a string.  Time is in whole seconds.                         *)
(***************************************************************************)
EXTENDS Integers, Sequences, FiniteSets, TLC

\* ------------------------------------------------------------------------
\* Program constants
\* ------------------------------------------------------------------------
PACKET_SIZE == 512
ANNOUNCE_ALARM == 10
ANNOUNCE_TTL == 30
HEADER == 1

\* ------------------------------------------------------------------------
\* Bounds and input sets
\* ------------------------------------------------------------------------
\* The clock stops being advanced once it would pass MaxTime.
MaxTime == 65

\* time.time() when the daemon is constructed: a wall clock, past the first
\* heartbeat interval since its zero.
Epoch == 2 * ANNOUNCE_ALARM

\* How long after the start of a poll a datagram or request may arrive.
Delays == {0, ANNOUNCE_ALARM \div 2}

IPs == {"10.0.0.1", "10.0.0.2"}

\* The hostnames "a" and "b" as ASCII bytes.
NameA == <<97>>
NameB == <<98>>
Names == {NameA, NameB}

\* The hostname this daemon announces.
Hostname == NameA

\* a hostname that fills the whole field of an Announce, leaving no NUL
LongName == [i \in 1..(PACKET_SIZE - 1) |-> 97]

SendResults == {"ok", "OSError"}

\* ------------------------------------------------------------------------
\* Maps (Python dicts) as functions with a finite domain
\* ------------------------------------------------------------------------
EmptyMap == [x \in {} |-> 0]

Put(f, k, v) == [x \in (DOMAIN f) \cup {k} |-> IF x = k THEN v ELSE f[x]]

Del(f, k) == [x \in (DOMAIN f) \ {k} |-> f[x]]

\* defaultdict.__getitem__: the value, or the default when the key is absent
Get(f, k, default) == IF k \in DOMAIN f THEN f[k] ELSE default

Min(a, b) == IF a < b THEN a ELSE b

Max(a, b) == IF a > b THEN a ELSE b

\* bytes.ljust(n, NUL) padding
Nuls(n) == [i \in 1..n |-> 0]

\* bytes[from:] with a 0-based start
Slice(buf, from) == SubSeq(buf, from + 1, Len(buf))

\* ------------------------------------------------------------------------
\* Announce codec (lns/net_proto.py)
\* ------------------------------------------------------------------------
\* verify_hostname: the decoded hostname, or a ValueError
verify_hostname(hostname_bytes) ==
    IF Len(hostname_bytes) = 0 \/ Len(hostname_bytes) > PACKET_SIZE - 1
    THEN [ok |-> FALSE, hostname |-> << >>]
    ELSE IF \E i \in 1..Len(hostname_bytes) :
                hostname_bytes[i] < 32 \/ hostname_bytes[i] > 126
         THEN [ok |-> FALSE, hostname |-> << >>]
         ELSE [ok |-> TRUE, hostname |-> hostname_bytes]

\* Announce.parses
parses(buffer) == Len(buffer) > 0 /\ buffer[1] = HEADER

\* bytes.find(NUL): the 0-based index of the first NUL, or -1
find_nul(buffer) ==
    IF \E i \in 1..Len(buffer) : buffer[i] = 0
    THEN (CHOOSE i \in 1..Len(buffer) :
              buffer[i] = 0 /\ \A j \in 1..(i - 1) : buffer[j] # 0) - 1
    ELSE -1

\* A hostname is a str, modelled as the sequence of its characters; a
\* hostname that is a bytes object is that sequence behind the tag
BytesTag == 0 - 1

bytes_object(b) == <<BytesTag>> \o b

is_bytes(h) == Len(h) > 0 /\ h[1] = BytesTag

\* Announce.unserialize: the message, or a ValueError.  Without a NUL the
\* tail is returned as it is, a bytes object that was not verified
unserialize(buffer) ==
    IF Len(buffer) # PACKET_SIZE
    THEN [ok |-> FALSE, hostname |-> << >>]
    ELSE IF buffer[1] # HEADER
    THEN [ok |-> FALSE, hostname |-> << >>]
    ELSE LET tail == Slice(buffer, 1)
             first_nul == find_nul(tail)
         IN IF first_nul = -1
            THEN [ok |-> TRUE, hostname |-> bytes_object(tail)]
            ELSE verify_hostname(SubSeq(tail, 1, first_nul))

\* Announce.serialize (for a hostname of at most PACKET_SIZE - 1 bytes)
serialize(hostname) ==
    <<HEADER>> \o hostname \o Nuls(PACKET_SIZE - 1 - Len(hostname))

\* Announce.serialize: the exception it raises, "none" if it returns.  A
\* bytes object has no encode, a character above 127 has no ASCII
\* encoding, more than PACKET_SIZE - 1 bytes are refused; nothing else is
\* looked at
Announce_serialize(hostname) ==
    IF is_bytes(hostname) THEN "AttributeError"
    ELSE IF \E i \in 1..Len(hostname) : hostname[i] > 127 THEN "UnicodeEncodeError"
    ELSE IF Len(hostname) > PACKET_SIZE - 1 THEN "ValueError"
    ELSE "none"

\* ------------------------------------------------------------------------
\* Datagrams the network may deliver
\* ------------------------------------------------------------------------
\* 512 bytes with a header byte that is not 0x01
BadHeader == <<2>> \o Nuls(PACKET_SIZE - 1)

\* header 0x01 followed by an empty hostname
EmptyName == <<HEADER>> \o Nuls(PACKET_SIZE - 1)

\* header 0x01 followed by a hostname with a non-printable byte (0x07)
Unprintable == <<HEADER, 7>> \o Nuls(PACKET_SIZE - 2)

\* a truncated datagram: the first half of an Announce
Truncated == SubSeq(serialize(NameB), 1, PACKET_SIZE \div 2)

Malformed == {BadHeader, EmptyName, Unprintable}

Announces == {serialize(n) : n \in Names}

Datagrams == Announces \cup Malformed \cup {Truncated}

\* What identifies a datagram of this model: its length, its header byte and
\* the bytes of its hostname field up to the first NUL
Digest(data) ==
    [len |-> Len(data),
     header |-> data[1],
     field |-> LET tail == Slice(data, 1)
               IN IF find_nul(tail) = -1 THEN tail ELSE SubSeq(tail, 1, find_nul(tail))]

NoData == [len |-> 0, header |-> 0, field |-> << >>]

\* ------------------------------------------------------------------------
\* State
\* ------------------------------------------------------------------------
VARIABLES
    now,                      \* time.time()
    last_announce_time,       \* ProtocolHandler.last_announce_time
    peer_last_announce_time,  \* ip -> time of its last accepted Announce
    host_to_ips,              \* defaultdict(set): hostname -> set of ips
    ip_to_host,               \* ip -> hostname
    peer_buffers,             \* defaultdict(bytes): ip -> unparsed bytes
    server_sock,              \* "none", "open" or "closed"
    callbacks,                \* reactor: <<fd, event>> -> callback
    fd_events,                \* reactor: fd -> the events it is watched for
    pollster,                 \* reactor: the poller, fd -> the flags registered
    step_callbacks,           \* reactor: the step callbacks
    sent,                     \* times of the two most recent broadcasts that left the socket
    pc,                       \* the supervisor: "init", "running", "crashed", "stopped"
    done,                     \* control engine: the Quit flag
    replies,                  \* what the control engine wrote to its client in the last poll
    clients,                  \* control engine: the fds of the connected clients
    client_buffers,           \* control engine: fd -> unparsed bytes
    wire,                     \* fd -> the bytes its client has sent that were not received yet
    closed_socks,             \* the sockets the control engine closed, in the order of the calls
    select_reactor,           \* a SelectReactor given the calls the reactor is given
    fired,                    \* the callbacks the last poll invoked, in order
    select_call,              \* what the same call did on the SelectReactor
    last_call,                \* the last operation, its inputs and its outcome
    host_names,               \* lns/lnsd.py LNS.host_names: ip -> name, names unique
    age,                      \* lns/proto.py: ip -> time of its last datagram
    last_heartbeat,           \* lns/proto.py: time of the last Announce sent
    quit_event,               \* lns/lnsd.py LNS.quit_event
    thread_pc,                \* protocol_handler: "start", "running", "returned", "exited", "crashed"
    thread_sent,              \* what protocol_handler sent in its last iteration
    parent,                   \* a TransactionalBytesIO: its contents and its position
    txn,                      \* the BytesIOTransaction taken on it, if any
    subject,                  \* the value handed to a codec
    outcome,                  \* what the codec made of it
    host_names_lock,          \* lns/lnsd.py LNS.host_names_lock: the thread that holds it
    section,                  \* protocol_handler: where in its loop it is
    pending,                  \* protocol_handler: its locals inside one iteration
    readers,                  \* the threads that read host_names: where each is
    seen,                     \* what a reader last read, and when
    service_pc,               \* run_service: "start", "serving", "ended"
    socks,                    \* socks/session.py SessionManager: its loop and sessions
    quit_time,                \* when quit_event was set
    manager_fds,              \* socks/session.py SessionManager.fds: fd -> its session
    sessions,                 \* the Session objects and the protocol objects that own them
    sockets,                  \* fd -> the socket: open or closed, unread bytes, what was sent
    socks_call                \* what the last callback of the proxy did

vars == <<now, last_announce_time, peer_last_announce_time, host_to_ips,
          ip_to_host, peer_buffers, server_sock, callbacks, fd_events,
          pollster, step_callbacks, sent, pc, done, replies, clients,
          client_buffers, wire, closed_socks, select_reactor, fired, select_call,
          last_call,
          host_names, age, last_heartbeat, quit_event, thread_pc, thread_sent,
          parent, txn, subject, outcome,
          host_names_lock, section, pending, readers, seen, service_pc, socks,
          quit_time,
          manager_fds, sessions, sockets, socks_call>>

\* the state of the reactor-based daemon
dvars == <<last_announce_time, peer_last_announce_time, host_to_ips,
           ip_to_host, peer_buffers, server_sock, callbacks, fd_events,
           pollster, step_callbacks, sent, pc, done, replies, clients,
           client_buffers, wire, closed_socks, select_reactor, fired, select_call>>

\* the control engine's clients
cvars == <<clients, client_buffers, wire, closed_socks>>

\* the poller's side of the reactor
rvars == <<fd_events, pollster>>

\* the reactor driven on its own
xvars == <<select_reactor, fired, select_call>>

\* the stream and the codecs exercised on their own
svars == <<parent, txn, subject, outcome>>

\* the threads of the threaded daemon beside each other
lvars == <<host_names_lock, section, pending, readers, seen, service_pc, socks,
           quit_time>>

\* the sessions of the SOCKS proxy
kvars == <<manager_fds, sessions, sockets, socks_call>>

\* the state of the threaded daemon
tvars == <<host_names, age, last_heartbeat, quit_event, thread_pc, thread_sent>>

\* The announce engine's fields as one record, so that a callback can be
\* applied to the result of another within one poll.
Engine ==
    [last_announce_time |-> last_announce_time,
     peer_last_announce_time |-> peer_last_announce_time,
     host_to_ips |-> host_to_ips,
     ip_to_host |-> ip_to_host,
     peer_buffers |-> peer_buffers,
     sent |-> sent]

\* The reactor's fields as one record
Reactor == [callbacks |-> callbacks, fd_events |-> fd_events, pollster |-> pollster]

\* The control engine's fields as one record
Control ==
    [clients |-> clients, client_buffers |-> client_buffers, done |-> done,
     closed_socks |-> closed_socks]

\* ------------------------------------------------------------------------
\* Announce engine (lns/net_proto.py, ProtocolHandler)
\* ------------------------------------------------------------------------
\* ProtocolHandler.__init__
NewEngine ==
    [last_announce_time |-> 0,
     peer_last_announce_time |-> EmptyMap,
     host_to_ips |-> EmptyMap,
     ip_to_host |-> EmptyMap,
     peer_buffers |-> EmptyMap,
     sent |-> << >>]

\* query_ip: ip_to_host.get(ip, None)
query_ip(E, ip) == Get(E.ip_to_host, ip, "None")

\* query_host reads a defaultdict: a missing key is created with an empty set
query_host_touch(E, host) ==
    [E EXCEPT !.host_to_ips = Put(@, host, Get(@, host, {}))]

\* the members query_host lists
query_host(E, host) == Get(E.host_to_ips, host, {})

\* get_host_ip_map: the hosts that have at least one ip
get_host_ip_map(E) ==
    [h \in {k \in DOMAIN E.host_to_ips : E.host_to_ips[k] # {}} |-> E.host_to_ips[h]]

\* get_time_until_next_announce forgetting the time already spent
get_time_until_next_announce_no_elapsed(E, t) ==
    ANNOUNCE_ALARM

\* get_time_until_next_announce without its floor of 0
get_time_until_next_announce_no_floor(E, t) ==
    ANNOUNCE_ALARM - (t - E.last_announce_time)

\* get_time_until_next_announce
get_time_until_next_announce(E, t) ==
    Max(ANNOUNCE_ALARM - (t - E.last_announce_time), 0)

\* the body of the sweep loop without the deletion of the peer's buffer
drop_peer_keep_buffer(E, peer) ==
    [E |-> [E EXCEPT !.peer_last_announce_time = Del(@, peer),
                     !.ip_to_host = Del(@, peer),
                     !.host_to_ips = Put(@, E.ip_to_host[peer],
                                         Get(@, E.ip_to_host[peer], {}) \ {peer})],
     exc |-> "none"]

\* the body of the sweep loop for one peer
drop_peer(E, peer) ==
    IF peer \notin DOMAIN E.peer_buffers
    THEN [E |-> [E EXCEPT !.peer_last_announce_time = Del(@, peer)],
          exc |-> "KeyError"]
    ELSE IF peer \notin DOMAIN E.ip_to_host
    THEN [E |-> [E EXCEPT !.peer_last_announce_time = Del(@, peer),
                          !.peer_buffers = Del(@, peer)],
          exc |-> "KeyError"]
    ELSE LET peer_name == E.ip_to_host[peer]
             ips == Get(E.host_to_ips, peer_name, {})
             E1 == [E EXCEPT !.peer_last_announce_time = Del(@, peer),
                             !.peer_buffers = Del(@, peer),
                             !.ip_to_host = Del(@, peer),
                             !.host_to_ips = Put(@, peer_name, ips \ {peer})]
         IN [E |-> E1, exc |-> IF peer \in ips THEN "none" ELSE "KeyError"]

RECURSIVE drop_peers(_, _)
drop_peers(E, to_drop) ==
    IF to_drop = {}
    THEN [E |-> E, exc |-> "none"]
    ELSE LET peer == CHOOSE p \in to_drop : TRUE
             r == drop_peer(E, peer)
         IN IF r.exc # "none" THEN r ELSE drop_peers(r.E, to_drop \ {peer})

\* the sweep comparing the daemon's own last_announce_time, which the name
\* of its loop variable shadows, instead of the peer's
sweep_own_clock(E, t) ==
    drop_peers(E, {peer \in DOMAIN E.peer_last_announce_time :
                       t - E.last_announce_time > ANNOUNCE_TTL})

\* the TTL sweep of on_announce_timeout
sweep(E, t) ==
    drop_peers(E, {peer \in DOMAIN E.peer_last_announce_time :
                       t - E.peer_last_announce_time[peer] > ANNOUNCE_TTL})

\* sent keeps the two most recent broadcasts
LastTwo(q) == IF Len(q) > 2 THEN SubSeq(q, Len(q) - 1, Len(q)) ELSE q

\* the heartbeat of on_announce_timeout: the timestamp, then the send,
\* whose OSError is swallowed
heartbeat(E, t, send) ==
    [E EXCEPT !.last_announce_time = t,
              !.sent = IF send = "ok" THEN LastTwo(Append(@, t)) ELSE @]

\* on_announce_timeout without its throttle
on_announce_timeout_unthrottled(E, t, send) ==
    sweep(heartbeat(E, t, send), t)

\* on_announce_timeout returning from its except clause
on_announce_timeout_return_on_error(E, t, send) ==
    IF t - E.last_announce_time < ANNOUNCE_ALARM
    THEN [E |-> E, exc |-> "none"]
    ELSE IF send = "OSError"
    THEN [E |-> heartbeat(E, t, send), exc |-> "none"]
    ELSE sweep(heartbeat(E, t, send), t)

\* on_announce_timeout
on_announce_timeout(E, t, send) ==
    IF t - E.last_announce_time < ANNOUNCE_ALARM
    THEN [E |-> E, exc |-> "none"]
    ELSE sweep(heartbeat(E, t, send), t)

\* the update without the disposal of the old name
update_peer_keep_old(E, host, hostname, t) ==
    [E |-> [E EXCEPT !.peer_last_announce_time = Put(@, host, t),
                     !.ip_to_host = Put(@, host, hostname),
                     !.host_to_ips = Put(@, hostname, Get(@, hostname, {}) \cup {host})],
     exc |-> "none"]

\* the update without the peer's timestamp
update_peer_untimed(E, host, hostname, t) ==
    LET known == host \in DOMAIN E.ip_to_host
        old_ips == IF known THEN Get(E.host_to_ips, E.ip_to_host[host], {}) ELSE {}
        h1 == IF known THEN Put(E.host_to_ips, E.ip_to_host[host], old_ips \ {host})
              ELSE E.host_to_ips
        h2 == Put(h1, hostname, Get(h1, hostname, {}) \cup {host})
    IN IF known /\ host \notin old_ips
       THEN [E |-> E, exc |-> "KeyError"]
       ELSE [E |-> [E EXCEPT !.ip_to_host = Put(@, host, hostname),
                             !.host_to_ips = h2],
             exc |-> "none"]

\* the update handle_messages makes for one Announce
update_peer(E, host, hostname, t) ==
    LET E1 == [E EXCEPT !.peer_last_announce_time = Put(@, host, t)]
        known == host \in DOMAIN E.ip_to_host
        old_ips == IF known THEN Get(E.host_to_ips, E.ip_to_host[host], {}) ELSE {}
        h1 == IF known THEN Put(E.host_to_ips, E.ip_to_host[host], old_ips \ {host})
              ELSE E.host_to_ips
        h2 == Put(h1, hostname, Get(h1, hostname, {}) \cup {host})
    IN IF known /\ host \notin old_ips
       THEN [E |-> E1, exc |-> "KeyError"]
       ELSE [E |-> [E1 EXCEPT !.ip_to_host = Put(@, host, hostname),
                              !.host_to_ips = h2],
             exc |-> "none"]

\* the frame loop of handle_messages over the stream of peer_buffers[host],
\* pos being the position of the stream
RECURSIVE handle_frames(_, _, _, _, _)
handle_frames(E, host, stream, pos, t) ==
    LET packet == SubSeq(stream, pos + 1, Min(pos + PACKET_SIZE, Len(stream)))
    IN IF Len(packet) < PACKET_SIZE
       THEN [E |-> [E EXCEPT !.peer_buffers = Put(@, host, Slice(stream, pos))],
             exc |-> "none"]
       ELSE IF ~parses(packet)
       THEN handle_frames(E, host, stream, pos + PACKET_SIZE, t)
       ELSE LET message == unserialize(packet)
            IN IF ~message.ok
               THEN [E |-> E, exc |-> "ValueError"]
               ELSE LET r == update_peer(E, host, message.hostname, t)
                    IN IF r.exc # "none" THEN r
                       ELSE handle_frames(r.E, host, stream, pos + PACKET_SIZE, t)

\* handle_messages
handle_messages(E, host, t) ==
    handle_frames(E, host, Get(E.peer_buffers, host, << >>), 0, t)

\* on_message storing the datagram in place of the peer's buffer
on_message_replace_buffer(E, host, data, t) ==
    handle_messages([E EXCEPT !.peer_buffers =
                         Put(@, host, SubSeq(data, 1, Min(Len(data), PACKET_SIZE)))],
                    host, t)

\* on_message: one datagram of at most PACKET_SIZE bytes from host
on_message(E, host, data, t) ==
    LET buffered == Get(E.peer_buffers, host, << >>) \o SubSeq(data, 1, Min(Len(data), PACKET_SIZE))
    IN handle_messages([E EXCEPT !.peer_buffers = Put(@, host, buffered)], host, t)

\* ------------------------------------------------------------------------
\* Control engine dispatch (lns_ng/control_proto.py, ProtocolHandler)
\* ------------------------------------------------------------------------
\* The messages, as decoded
Host(hostname) == [type |-> "name", hostname |-> hostname]

IP(ip_addrs) == [type |-> "ip", ip_addrs |-> ip_addrs]

GetAll == [type |-> "get-all"]

NameIPMapping(name_ips) == [type |-> "nameipmapping", name_ips |-> name_ips]

Quit == [type |-> "quit"]

NoMessage == [type |-> "none"]

\* An Announce of the network protocol
Announce(hostname) == [type |-> "announce", hostname |-> hostname]

\* The TYPE of each message class of the control protocol
MessageTypes == {"name", "ip", "get-all", "nameipmapping", "quit"}

\* The requests a client may send
Requests ==
    {Host(h) : h \in Names}
    \cup {IP(<<ip>>) : ip \in IPs}
    \cup {IP(<< >>), IP(<<"10.0.0.1", "10.0.0.2">>)}
    \cup {GetAll, Quit}

\* The orders in which a Python set of ips may be listed
Orders ==
    {o \in [1..Cardinality(IPs) -> IPs] : \A i, j \in DOMAIN o : i # j => o[i] # o[j]}

\* list(a_set), the set being iterated in the order o
ListOf(S, o) == SelectSeq(o, LAMBDA x : x \in S)

\* Host.serialize: the exception it raises, "none" if it returns.  None is
\* not verified, a bytes object has no encode, a str is verified
Host_serialize(hostname) ==
    IF hostname = "None" THEN "none"
    ELSE IF is_bytes(hostname) THEN "AttributeError"
    ELSE IF verify_hostname(hostname).ok THEN "none" ELSE "ValueError"

\* NameIPMapping.serialize: json.dumps takes no bytes object as a key
NameIPMapping_serialize(name_ips) ==
    IF \E h \in DOMAIN name_ips : is_bytes(h) THEN "TypeError" ELSE "none"

\* reply.serialize() of handle_message
reply_serialize(reply) ==
    IF reply.type = "name" THEN Host_serialize(reply.hostname)
    ELSE IF reply.type = "nameipmapping" THEN NameIPMapping_serialize(reply.name_ips)
    ELSE "none"

\* the reply handle_message builds, << >> if it builds none
build_reply(E, message, o) ==
    IF message.type = "name"
    THEN <<IP(ListOf(query_host(E, message.hostname), o))>>
    ELSE IF message.type = "ip" /\ Len(message.ip_addrs) = 1
    THEN <<Host(query_ip(E, message.ip_addrs[1]))>>
    ELSE IF message.type = "get-all"
    THEN <<NameIPMapping([h \in DOMAIN get_host_ip_map(E) |->
                             ListOf(get_host_ip_map(E)[h], o)])>>
    ELSE << >>

\* handle_message replying to a Host request only when it found an address
handle_message_skip_empty(E, message, o, was_done) ==
    [E |-> IF message.type = "name" THEN query_host_touch(E, message.hostname) ELSE E,
     out |-> IF message.type = "name" /\ query_host(E, message.hostname) # {}
             THEN <<IP(ListOf(query_host(E, message.hostname), o))>>
             ELSE << >>,
     done |-> was_done \/ message.type = "quit",
     exc |-> "none"]

\* handle_message taking done from the last message alone
handle_message_done_by_last(E, message, o, was_done) ==
    [E |-> IF message.type = "name" THEN query_host_touch(E, message.hostname) ELSE E,
     out |-> build_reply(E, message, o),
     done |-> message.type = "quit",
     exc |-> "none"]

\* handle_message: the engine after the query, the replies handed to
\* client.sendall, the done flag and the exception that escapes.  o is the
\* iteration order of the sets.
handle_message(E, message, o, was_done) ==
    LET reply == build_reply(E, message, o)
        exc == IF reply = << >> THEN "none" ELSE reply_serialize(reply[1])
    IN [E |-> IF message.type = "name" THEN query_host_touch(E, message.hostname) ELSE E,
        out |-> IF exc = "none" THEN reply ELSE << >>,
        done |-> was_done \/ message.type = "quit",
        exc |-> exc]

\* ------------------------------------------------------------------------
\* Control codec (lns_ng/control_proto.py)
\* ------------------------------------------------------------------------
\* utils.BUFFER_SIZE: the most that one recv returns
BUFFER_SIZE == 1024

\* The ASCII text of an address of this model
ip_text(ip) ==
    IF ip = "10.0.0.1" THEN <<49, 48, 46, 48, 46, 48, 46, 49>>
    ELSE IF ip = "10.0.0.2" THEN <<49, 48, 46, 48, 46, 48, 46, 50>>
    ELSE << >>

\* The address that a text names: the key the peer map is asked for
ip_name(text) ==
    IF \E ip \in IPs : ip_text(ip) = text
    THEN CHOOSE ip \in IPs : ip_text(ip) = text
    ELSE "other"

\* struct.pack('H', length) on a little-endian machine
pack_H(length) == <<length % 256, length \div 256>>

\* struct.unpack('H', two_bytes)
unpack_H(length_bytes) == length_bytes[1] + 256 * length_bytes[2]

\* ', '.join of the quoted texts texts[lo..hi] of a list, by halves
RECURSIVE join_range(_, _, _)
join_range(texts, lo, hi) ==
    IF lo > hi THEN << >>
    ELSE IF lo = hi THEN <<34>> \o texts[lo] \o <<34>>
    ELSE join_range(texts, lo, (lo + hi) \div 2) \o <<44, 32>>
         \o join_range(texts, (lo + hi) \div 2 + 1, hi)

\* ', '.join of the quoted texts of a list
join(texts) == join_range(texts, 1, Len(texts))

\* The keys of a dictionary in the order it lists them
RECURSIVE keys(_)
keys(dict) ==
    IF DOMAIN dict = {} THEN << >>
    ELSE LET k == CHOOSE k \in DOMAIN dict : TRUE
         IN <<k>> \o keys(Del(dict, k))

\* ', '.join of the items "name": [addresses] of a dictionary
RECURSIVE dump_items(_, _)
dump_items(name_ips, names) ==
    IF Len(names) = 0 THEN << >>
    ELSE <<34>> \o names[1] \o <<34, 58, 32, 91>> \o join(name_ips[names[1]]) \o <<93>>
         \o (IF Len(names) = 1 THEN << >> ELSE <<44, 32>>)
         \o dump_items(name_ips, Tail(names))

\* json.dumps of the dictionary of a request or of a reply to one.  The
\* hostname and the addresses of a dictionary are texts of characters that
\* json.dumps writes as they are (32..126 without the quote and the
\* backslash)
json_dumps(data) ==
    IF "type" \notin DOMAIN data
    THEN <<123, 125>>                                   \* {}
    ELSE IF data.type = "name"
    THEN <<123, 34, 116, 121, 112, 101, 34, 58, 32, 34, 110, 97, 109, 101,
           34, 44, 32, 34, 104, 111, 115, 116, 110, 97, 109, 101, 34, 58,
           32>>                                         \* {"type": "name", "hostname":
         \o (IF data.hostname = "None" THEN <<110, 117, 108, 108>>
             ELSE <<34>> \o data.hostname \o <<34>>)
         \o <<125>>
    ELSE IF data.type = "ip"
    THEN <<123, 34, 116, 121, 112, 101, 34, 58, 32, 34, 105, 112, 34, 44,
           32, 34, 105, 112, 95, 97, 100, 100, 114, 115, 34, 58, 32, 91>>
                                                        \* {"type": "ip", "ip_addrs": [
         \o join(data.ip_addrs) \o <<93, 125>>
    ELSE IF data.type = "get-all"
    THEN <<123, 34, 116, 121, 112, 101, 34, 58, 32, 34, 103, 101, 116, 45,
           97, 108, 108, 34, 125>>                      \* {"type": "get-all"}
    ELSE IF data.type = "quit"
    THEN <<123, 34, 116, 121, 112, 101, 34, 58, 32, 34, 113, 117, 105, 116,
           34, 125>>                                    \* {"type": "quit"}
    ELSE IF data.type = "nameipmapping"
    THEN <<123, 34, 116, 121, 112, 101, 34, 58, 32, 34, 110, 97, 109, 101,
           105, 112, 109, 97, 112, 112, 105, 110, 103, 34, 44, 32, 34, 110,
           97, 109, 101, 95, 105, 112, 115, 34, 58, 32, 123>>
                                    \* {"type": "nameipmapping", "name_ips": {
         \o dump_items(data.name_ips, keys(data.name_ips)) \o <<125, 125>>
    ELSE <<123, 34, 116, 121, 112, 101, 34, 58, 32, 34, 98, 111, 103, 117,
           115, 34, 125>>                               \* {"type": "bogus"}

\* length_encode_json
length_encode_json(data) == pack_H(Len(json_dumps(data))) \o json_dumps(data)

\* A frame whose payload is the given bytes
frame(json_bytes) == pack_H(Len(json_bytes)) \o json_bytes

\* The text of a short address, of three octets
ShortAddress == <<49, 46, 50, 46, 51>>

\* The dictionaries a client of this model sends
GoodDocuments ==
    {Host(NameA), IP(<< >>), IP(<<ip_text("10.0.0.1")>>),
     IP(<<ip_text("10.0.0.1"), ip_text("10.0.0.2")>>), GetAll, Quit}

\* dictionaries that a message class refuses: an empty hostname, an address
\* of three octets
InvalidDocuments == {Host(<< >>), IP(<<ShortAddress>>)}

\* a dictionary whose type no message class parses
UnknownType == [type |-> "bogus"]

\* a dictionary without a type
MissingType == EmptyMap

Documents == GoodDocuments \cup InvalidDocuments \cup {UnknownType}

\* ------------------------------------------------------------------------
\* The messages a program may hand to the codecs
\* ------------------------------------------------------------------------
\* The longest hostname that is tried character by character
MaxName == 2

\* space, the first and the last printable character after it, DEL
NameChars == {32, 33, 126, 127}

\* hostnames of PACKET_SIZE - 2, PACKET_SIZE - 1 and PACKET_SIZE characters
LongNames == {<< >> \o [i \in 1..n |-> 97] : n \in (PACKET_SIZE - 2)..PACKET_SIZE}

\* The texts of n of those characters
RECURSIVE Texts(_)
Texts(n) ==
    IF n = 0 THEN {<< >>}
    ELSE {<<c>> \o text : c \in NameChars, text \in Texts(n - 1)}

\* The hostnames tried, the empty one among them
Hostnames == UNION {Texts(n) : n \in 0..MaxName} \cup LongNames

\* The text of an address whose first octet is 256
BigOctet == <<50, 53, 54, 46, 48, 46, 48, 46, 49>>

\* The addresses tried: two valid ones, one of three octets, one with an
\* octet above 255
Addresses == {ip_text(ip) : ip \in IPs} \cup {ShortAddress, BigOctet}

\* The lists of addresses tried
AddressLists == UNION {[1..n -> Addresses] : n \in 0..2}

\* struct.pack('H', ...) takes no more than this
USHRT_MAX == 65535

\* The length of a list of addresses whose JSON text is longer than that
ManyAddresses == 5460

\* The dictionaries of names and addresses tried
Mappings ==
    {EmptyMap}
    \cup {[h \in {<<33>>} |-> l] : l \in AddressLists}
    \cup {[h \in {<<33>>, <<126, 32>>} |-> IF h = <<33>> THEN l ELSE <<ip_text("10.0.0.2")>>] :
              l \in {<< >>, <<ip_text("10.0.0.1"), ip_text("10.0.0.2")>>}}
    \cup {[h \in {<< >>} |-> <<ip_text("10.0.0.1")>>]}

\* whether json.dumps writes every character of a text as it is
plain(text) ==
    \A i \in 1..Len(text) : text[i] \in 32..126 /\ text[i] \notin {34, 92}

\* The dictionaries whose JSON text the codec is given back
CodecDocuments ==
    {Host(h) : h \in {x \in Hostnames : plain(x)}}
    \cup {IP(l) : l \in AddressLists}
    \cup {NameIPMapping(d) : d \in Mappings}

\* payloads that are no JSON text: an open brace, a byte that UTF-8 never
\* holds, nothing at all
NotJson == <<123>>
NotUtf8 == <<255>>
NoText == << >>

\* the JSON text null
JsonNull == <<110, 117, 108, 108>>

\* bytes.decode('utf-8') of a payload without multi-byte sequences: whether
\* it succeeds
decodes(json_bytes) == \A i \in 1..Len(json_bytes) : json_bytes[i] < 128

\* The value bound to a name that is used more than once: the one element
\* of a set built from it
The(S) == CHOOSE x \in S : TRUE

\* json.loads on the texts of this model: the dictionary whose text it is,
\* None, or a ValueError
json_loads(json_str) ==
    IF json_str = JsonNull
    THEN [exc |-> "none", is_none |-> TRUE, data |-> EmptyMap]
    ELSE IF json_str = <<123, 125>>
    THEN [exc |-> "none", is_none |-> FALSE, data |-> MissingType]
    ELSE IF \E data \in Documents : json_dumps(data) = json_str
    THEN [exc |-> "none", is_none |-> FALSE,
          data |-> CHOOSE data \in Documents : json_dumps(data) = json_str]
    ELSE IF json_str = json_dumps(Host("None"))
    THEN [exc |-> "none", is_none |-> FALSE, data |-> Host("None")]
    ELSE IF \E data \in CodecDocuments : json_dumps(data) = json_str
    THEN [exc |-> "none", is_none |-> FALSE,
          data |-> CHOOSE data \in CodecDocuments : json_dumps(data) = json_str]
    ELSE [exc |-> "ValueError", is_none |-> FALSE, data |-> EmptyMap]

\* get_length_encoded_json on a stream at pos: what it returns or raises,
\* and the position it leaves the stream at
get_length_encoded_json(stream, pos) ==
    LET length_bytes == SubSeq(stream, pos + 1, Min(pos + 2, Len(stream)))
    IN IF Len(length_bytes) # 2
       THEN [exc |-> "EOFError", is_none |-> FALSE, data |-> EmptyMap,
             pos |-> pos + Len(length_bytes)]
       ELSE LET length == unpack_H(length_bytes)
                json_bytes == SubSeq(stream, pos + 3, Min(pos + 2 + length, Len(stream)))
                at == pos + 2 + Len(json_bytes)
            IN IF Len(json_bytes) # length
               THEN [exc |-> "EOFError", is_none |-> FALSE, data |-> EmptyMap, pos |-> at]
               ELSE IF ~decodes(json_bytes)
               THEN [exc |-> "ValueError", is_none |-> FALSE, data |-> EmptyMap, pos |-> at]
               ELSE The({[exc |-> loaded.exc, is_none |-> loaded.is_none,
                          data |-> loaded.data, pos |-> at] :
                         loaded \in {json_loads(json_bytes)}})

\* str.split('.') of a text
RECURSIVE split_dots(_)
split_dots(text) ==
    IF \E i \in 1..Len(text) : text[i] = 46
    THEN LET dot == CHOOSE i \in 1..Len(text) :
                        text[i] = 46 /\ \A j \in 1..(i - 1) : text[j] # 46
         IN <<SubSeq(text, 1, dot - 1)>> \o split_dots(SubSeq(text, dot + 1, Len(text)))
    ELSE <<text>>

\* whether int(octet) returns: a text of decimal digits
is_int(octet) ==
    Len(octet) > 0 /\ \A i \in 1..Len(octet) : octet[i] \in 48..57

\* int(octet)
RECURSIVE int(_)
int(octet) ==
    IF Len(octet) = 0 THEN 0
    ELSE 10 * int(SubSeq(octet, 1, Len(octet) - 1)) + (octet[Len(octet)] - 48)

\* verify_ipv4_address: whether it returns rather than raising a ValueError
verify_ipv4_address(text) ==
    \E octets \in {split_dots(text)} :
        /\ Len(octets) = 4
        /\ \A i \in 1..Len(octets) :
              /\ is_int(octets[i])
              /\ \E int_octet \in {int(octets[i])} : int_octet >= 0 /\ int_octet <= 255

\* get_message_class: the TYPE of the class that parses the dictionary; a
\* dictionary without a type raises a KeyError in parses, one that no class
\* parses a ValueError
get_message_class(data) ==
    IF "type" \notin DOMAIN data THEN [exc |-> "KeyError", class |-> "-"]
    ELSE IF data.type \in {"name", "ip", "get-all", "nameipmapping", "quit"}
    THEN [exc |-> "none", class |-> data.type]
    ELSE [exc |-> "ValueError", class |-> "-"]

\* Host.unserialize
Host_unserialize(data) ==
    IF data.hostname # "None" /\ ~verify_hostname(data.hostname).ok
    THEN [exc |-> "ValueError", message |-> NoMessage]
    ELSE [exc |-> "none", message |-> Host(data.hostname)]

\* IP.unserialize.  The message lists the addresses by the names this model
\* gives them
IP_unserialize(data) ==
    IF \E i \in 1..Len(data.ip_addrs) : ~verify_ipv4_address(data.ip_addrs[i])
    THEN [exc |-> "ValueError", message |-> NoMessage]
    ELSE [exc |-> "none",
          message |-> IP([i \in 1..Len(data.ip_addrs) |-> ip_name(data.ip_addrs[i])])]

\* NameIPMapping.unserialize
NameIPMapping_unserialize(data) ==
    IF \E name \in DOMAIN data.name_ips :
          \/ ~verify_hostname(name).ok
          \/ \E i \in 1..Len(data.name_ips[name]) :
                 ~verify_ipv4_address(data.name_ips[name][i])
    THEN [exc |-> "ValueError", message |-> NoMessage]
    ELSE [exc |-> "none", message |-> NameIPMapping(data.name_ips)]

\* message_class.unserialize
message_unserialize(class, data) ==
    IF class = "name" THEN Host_unserialize(data)
    ELSE IF class = "ip" THEN IP_unserialize(data)
    ELSE IF class = "get-all" THEN [exc |-> "none", message |-> GetAll]
    ELSE IF class = "nameipmapping" THEN NameIPMapping_unserialize(data)
    ELSE [exc |-> "none", message |-> Quit]

\* struct.pack('H', length): the exception it raises, "none" if it returns
struct_pack_H(length) == IF length > USHRT_MAX THEN "struct.error" ELSE "none"

\* IP.serialize: the exception it raises.  The addresses are not looked at
IP_serialize(ip_addrs) == struct_pack_H(Len(json_dumps(IP(ip_addrs))))

\* message.serialize(): the exception it raises, "none" if it returns
message_serialize(message) ==
    IF message.type = "name" THEN Host_serialize(message.hostname)
    ELSE IF message.type = "ip" THEN IP_serialize(message.ip_addrs)
    ELSE IF message.type = "nameipmapping"
    THEN NameIPMapping_serialize(message.name_ips)
    ELSE "none"

\* ------------------------------------------------------------------------
\* Reactor (lns_ng/reactor.py, PollLikeReactor and SelectReactor)
\* ------------------------------------------------------------------------
READABLE == "READABLE"
WRITABLE == "WRITABLE"
ERROR == "ERROR"

Events == {READABLE, WRITABLE, ERROR}

\* The flags of LinuxReactor, each a set of bits: EPOLLIN, EPOLLOUT, and
\* EPOLLHUP with EPOLLERR
read_flag == {1}
write_flag == {4}
err_flags == {16, 8}

\* unbind called without events
NoEvents == {"None"}

\* The orders in which a Python set of events may be iterated
EventOrders ==
    {o \in [1..Cardinality(Events) -> Events] : \A i, j \in DOMAIN o : i # j => o[i] # o[j]}

\* what pollster.register, modify and unregister may do
PollsterResults == {"ok", "OSError"}

\* PollLikeReactor.__init__
NewReactor == [callbacks |-> EmptyMap, fd_events |-> EmptyMap, pollster |-> EmptyMap]

\* _event_set_to_flags
event_set_to_flags(events) ==
    (IF READABLE \in events THEN read_flag ELSE {})
    \cup (IF WRITABLE \in events THEN write_flag ELSE {})
    \cup (IF ERROR \in events THEN err_flags ELSE {})

\* _flags_to_event_set
flags_to_event_set(flag) ==
    (IF flag \cap read_flag # {} THEN {READABLE} ELSE {})
    \cup (IF flag \cap write_flag # {} THEN {WRITABLE} ELSE {})
    \cup (IF flag \cap err_flags # {} THEN {ERROR} ELSE {})

\* pollster.register: the poller after it, and what it raised
register(P, fd, flags, os) ==
    IF os # "ok" THEN [pollster |-> P, exc |-> os]
    ELSE IF fd \in DOMAIN P THEN [pollster |-> P, exc |-> "OSError"]
    ELSE [pollster |-> Put(P, fd, flags), exc |-> "none"]

\* pollster.modify: a descriptor that is not registered is an error
modify(P, fd, flags, os) ==
    IF os # "ok" THEN [pollster |-> P, exc |-> os]
    ELSE IF fd \notin DOMAIN P THEN [pollster |-> P, exc |-> "OSError"]
    ELSE [pollster |-> Put(P, fd, flags), exc |-> "none"]

\* pollster.unregister: a descriptor that is not registered is an error
unregister(P, fd, os) ==
    IF os # "ok" THEN [pollster |-> P, exc |-> os]
    ELSE IF fd \notin DOMAIN P THEN [pollster |-> P, exc |-> "OSError"]
    ELSE [pollster |-> Del(P, fd), exc |-> "none"]

\* for event in events: self.callbacks[fd, event] = callback
set_callbacks(cbs, fd, events, callback) ==
    [k \in (DOMAIN cbs) \cup {<<fd, e>> : e \in events} |->
        IF k \in {<<fd, e>> : e \in events} THEN callback ELSE cbs[k]]

\* bind storing the callback for every event the descriptor watches
bind_all_events(R, fd, events, callback, os) ==
    LET known == fd \in DOMAIN R.fd_events
        watched == IF known THEN R.fd_events[fd] \cup events ELSE events
        R1 == [R EXCEPT !.fd_events = Put(@, fd, watched)]
        p == IF known THEN modify(R.pollster, fd, event_set_to_flags(watched), os)
             ELSE register(R.pollster, fd, event_set_to_flags(watched), os)
    IN IF p.exc # "none"
       THEN [R |-> R1, exc |-> p.exc]
       ELSE [R |-> [R1 EXCEPT !.pollster = p.pollster,
                              !.callbacks = set_callbacks(@, fd, watched, callback)],
             exc |-> "none"]

\* PollLikeReactor.bind: the reactor after it, and what it raised.  os is
\* what the poller does with the call
bind(R, fd, events, callback, os) ==
    LET known == fd \in DOMAIN R.fd_events
        watched == IF known THEN R.fd_events[fd] \cup events ELSE events
        R1 == [R EXCEPT !.fd_events = Put(@, fd, watched)]
        p == IF known THEN modify(R.pollster, fd, event_set_to_flags(watched), os)
             ELSE register(R.pollster, fd, event_set_to_flags(watched), os)
    IN IF p.exc # "none"
       THEN [R |-> R1, exc |-> p.exc]
       ELSE [R |-> [R1 EXCEPT !.pollster = p.pollster,
                              !.callbacks = set_callbacks(@, fd, events, callback)],
             exc |-> "none"]

\* for event in events: del self.callbacks[fd, event], over the events as
\* listed: a missing key ends the loop with a KeyError
RECURSIVE del_callbacks(_, _, _)
del_callbacks(cbs, fd, listed) ==
    IF Len(listed) = 0 THEN [callbacks |-> cbs, exc |-> "none"]
    ELSE IF <<fd, Head(listed)>> \notin DOMAIN cbs
    THEN [callbacks |-> cbs, exc |-> "KeyError"]
    ELSE del_callbacks(Del(cbs, <<fd, Head(listed)>>), fd, Tail(listed))

\* PollLikeReactor.unbind: the reactor after it, and what it raised.
\* events is NoEvents for a call without events; order is the order in
\* which the set of events is iterated
unbind(R, fd, events, order, os) ==
    IF fd \notin DOMAIN R.fd_events
    THEN [R |-> R, exc |-> "KeyError"]
    ELSE LET given == IF events = NoEvents THEN R.fd_events[fd] ELSE events
             remaining_events == R.fd_events[fd] \ given
             R1 == [R EXCEPT !.fd_events = Put(@, fd, remaining_events)]
             p == IF remaining_events = {}
                  THEN unregister(R.pollster, fd, os)
                  ELSE modify(R.pollster, fd, event_set_to_flags(remaining_events), os)
             R2 == [R1 EXCEPT !.pollster = p.pollster,
                              !.fd_events = IF remaining_events = {} THEN Del(@, fd) ELSE @]
             c == del_callbacks(R.callbacks, fd, SelectSeq(order, LAMBDA e : e \in given))
         IN IF p.exc # "none"
            THEN [R |-> R1, exc |-> p.exc]
            ELSE [R |-> [R2 EXCEPT !.callbacks = c.callbacks], exc |-> c.exc]

\* has_clients
has_clients(R) == R.callbacks # EmptyMap

\* SelectReactor.__init__
NewSelectReactor == [readers |-> EmptyMap, writers |-> EmptyMap, errors |-> EmptyMap]

\* SelectReactor.bind
select_bind(S, fd, events, callback) ==
    [readers |-> IF READABLE \in events THEN Put(S.readers, fd, callback) ELSE S.readers,
     writers |-> IF WRITABLE \in events THEN Put(S.writers, fd, callback) ELSE S.writers,
     errors |-> IF ERROR \in events THEN Put(S.errors, fd, callback) ELSE S.errors]

\* SelectReactor.unbind
select_unbind(S, fd, events) ==
    LET given == IF events = NoEvents THEN Events ELSE events
    IN [readers |-> IF READABLE \in given THEN Del(S.readers, fd) ELSE S.readers,
        writers |-> IF WRITABLE \in given THEN Del(S.writers, fd) ELSE S.writers,
        errors |-> IF ERROR \in given THEN Del(S.errors, fd) ELSE S.errors]

\* the callback SelectReactor.poll looks up for an event, EMPTY_CALLBACK if
\* there is none
select_lookup(S, fd, event) ==
    IF event = READABLE THEN Get(S.readers, fd, "EMPTY_CALLBACK")
    ELSE IF event = WRITABLE THEN Get(S.writers, fd, "EMPTY_CALLBACK")
    ELSE Get(S.errors, fd, "EMPTY_CALLBACK")

\* ------------------------------------------------------------------------
\* Control engine (lns_ng/control_proto.py, ProtocolHandler)
\* ------------------------------------------------------------------------
\* ProtocolHandler.__init__
NewControl ==
    [clients |-> {}, client_buffers |-> EmptyMap, done |-> FALSE,
     closed_socks |-> << >>]

\* an order in which the events of a descriptor are listed
AnyOrder == CHOOSE o \in EventOrders : TRUE

\* on_connect: accept the client fd, give it a buffer, bind it
on_connect(C, R, fd) ==
    The({[C |-> [C EXCEPT !.clients = @ \cup {fd},
                          !.client_buffers = Put(@, fd, << >>)],
          R |-> b.R,
          exc |-> b.exc] :
         b \in {bind(R, fd, {READABLE}, "on_message_recv", "ok")}})

\* close_client forgetting the client's buffer
close_client_keep_buffer(C, R, fd) ==
    The({IF u.exc # "none"
         THEN [C |-> C, R |-> u.R, exc |-> u.exc]
         ELSE [C |-> [C EXCEPT !.clients = @ \ {fd},
                               !.closed_socks = Append(@, fd)],
               R |-> u.R,
               exc |-> "none"] :
         u \in {unbind(R, fd, NoEvents, AnyOrder, "ok")}})

\* close_client: unbind the client, close its socket, delete its entries
close_client(C, R, fd) ==
    The({IF u.exc # "none"
         THEN [C |-> C, R |-> u.R, exc |-> u.exc]
         ELSE [C |-> [C EXCEPT !.clients = @ \ {fd},
                               !.client_buffers = Del(@, fd),
                               !.closed_socks = Append(@, fd)],
               R |-> u.R,
               exc |-> "none"] :
         u \in {unbind(R, fd, NoEvents, AnyOrder, "ok")}})

\* What pull_messages has come to: the engine, the replies sent, the
\* messages dispatched, the done flag, the position of the stream, and the
\* exception that escapes ("NoReturn" if the loop never ends)
Pulled(E, out, dispatched, is_done, pos, exc) ==
    [E |-> E, out |-> out, dispatched |-> dispatched, done |-> is_done,
     pos |-> pos, exc |-> exc]

\* The loop of pull_messages over the stream of client_buffers[fd], pos
\* being the position of the stream.  Each turn reads one frame in a
\* transaction.  EOFError: the transaction is dropped and the loop left.
\* ValueError: the transaction is dropped too, and the next turn reads the
\* same frame from the same position: the loop never ends.  Otherwise the
\* transaction is committed, and a message that is not None is dispatched.
RECURSIVE pull_frames(_, _, _, _, _, _, _)
pull_frames(E, stream, pos, o, was_done, out, dispatched) ==
    The({
        IF json_message.exc = "EOFError"
        THEN Pulled(E, out, dispatched, was_done, pos, "none")
        ELSE IF json_message.exc = "ValueError"
        THEN Pulled(E, out, dispatched, was_done, pos, "NoReturn")
        ELSE IF json_message.is_none
        THEN pull_frames(E, stream, json_message.pos, o, was_done, out, dispatched)
        ELSE The({
            IF message_class.exc # "none"
            THEN Pulled(E, out, dispatched, was_done, json_message.pos, message_class.exc)
            ELSE The({
                IF message.exc # "none"
                THEN Pulled(E, out, dispatched, was_done, json_message.pos, message.exc)
                ELSE The({
                    IF h.exc # "none"
                    THEN Pulled(h.E, out, Append(dispatched, message.message), h.done,
                                json_message.pos, h.exc)
                    ELSE pull_frames(h.E, stream, json_message.pos, o, h.done,
                                     out \o h.out, Append(dispatched, message.message)) :
                    h \in {handle_message(E, message.message, o, was_done)}}) :
                message \in {message_unserialize(message_class.class, json_message.data)}}) :
            message_class \in {get_message_class(json_message.data)}}) :
        json_message \in {get_length_encoded_json(stream, pos)}})

\* pull_messages: the loop, then client_buffers[fd] = the rest of the
\* stream.  An exception that escapes the loop leaves the buffer as it was
pull_messages(C, E, fd, o) ==
    The({[C |-> [C EXCEPT !.done = p.done,
                          !.client_buffers =
                              IF p.exc = "none"
                              THEN Put(@, fd, Slice(C.client_buffers[fd], p.pos))
                              ELSE @],
          E |-> p.E, out |-> p.out, dispatched |-> p.dispatched, exc |-> p.exc] :
         p \in {pull_frames(E, C.client_buffers[fd], 0, o, C.done, << >>, << >>)}})

\* on_message_recv for a readable client: recv is what client_sock.recv
\* does, chunk what it returns.  It catches an OSError only
on_message_recv(C, E, R, fd, chunk, recv, o) ==
    IF recv = "OSError" \/ Len(chunk) = 0
    THEN The({[C |-> c.C, E |-> E, R |-> c.R, out |-> << >>, dispatched |-> << >>,
               exc |-> c.exc] :
              c \in {close_client(C, R, fd)}})
    ELSE The({[C |-> p.C, E |-> p.E, R |-> R, out |-> p.out,
               dispatched |-> p.dispatched, exc |-> p.exc] :
              p \in {pull_messages([C EXCEPT !.client_buffers = Put(@, fd, @[fd] \o chunk)],
                                   E, fd, o)}})

\* close: every client, then the listening socket
RECURSIVE close_clients(_, _, _)
close_clients(C, R, to_close) ==
    IF to_close = {}
    THEN [C |-> C, R |-> R, exc |-> "none"]
    ELSE The({IF r.exc # "none" THEN r
              ELSE close_clients(r.C, r.R, to_close \ {The(to_close)}) :
              r \in {close_client(C, R, The(to_close))}})

close(C, R) ==
    The({IF c.exc # "none" THEN c
         ELSE The({[C |-> IF u.exc # "none" THEN c.C
                          ELSE [c.C EXCEPT !.closed_socks = Append(@, "ctl")],
                    R |-> u.R, exc |-> u.exc] :
                   u \in {unbind(c.R, "ctl", NoEvents, AnyOrder, "ok")}}) :
         c \in {close_clients(C, R, C.clients)}})

\* ------------------------------------------------------------------------
\* TransactionalBytesIO (lns/utils.py)
\* ------------------------------------------------------------------------
\* io.BytesIO(initial_bytes): the contents, the position at 0
BytesIO(initial_bytes) == [value |-> initial_bytes, pos |-> 0]

\* getvalue, tell
getvalue(S) == S.value

tell(S) == S.pos

\* seek(pos): the position may lie past the end
seek(S, pos) == [S EXCEPT !.pos = pos]

\* read(n): the stream after it and the bytes read; at or past the end
\* nothing is read and the position stays
read(S, n) ==
    IF S.pos >= Len(S.value)
    THEN [stream |-> S, data |-> << >>]
    ELSE [stream |-> [S EXCEPT !.pos = Min(S.pos + n, Len(S.value))],
          data |-> SubSeq(S.value, S.pos + 1, Min(S.pos + n, Len(S.value)))]

\* write(b), b not empty: a position past the end is reached by padding
\* with NUL bytes, the bytes at the position are overwritten
write(S, b) ==
    IF Len(b) = 0 THEN S
    ELSE LET padded == IF S.pos > Len(S.value)
                       THEN S.value \o Nuls(S.pos - Len(S.value))
                       ELSE S.value
         IN [value |-> SubSeq(padded, 1, S.pos) \o b
                       \o SubSeq(padded, S.pos + Len(b) + 1, Len(padded)),
             pos |-> S.pos + Len(b)]

\* truncate(size): cuts the contents, never extends them, leaves the position
truncate(S, size) ==
    [S EXCEPT !.value = SubSeq(@, 1, Min(size, Len(@)))]

\* no transaction is taken
NoTxn == [state |-> "none"]

\* BytesIOTransaction.__init__, through get_transaction
get_transaction(P) ==
    [state |-> "open",
     position |-> tell(P),
     buffer |-> getvalue(P),
     stream |-> seek(BytesIO(getvalue(P)), tell(P))]

\* commit that sets the position only when the contents differ
commit_position_with_contents(T, P) ==
    IF getvalue(P) # getvalue(T.stream)
    THEN seek(write(seek(truncate(P, 0), 0), getvalue(T.stream)), tell(T.stream))
    ELSE P

\* BytesIOTransaction.commit: the parent after it
commit(T, P) ==
    seek(IF getvalue(P) # getvalue(T.stream)
         THEN write(seek(truncate(P, 0), 0), getvalue(T.stream))
         ELSE P,
         tell(T.stream))

\* abort whose caller rewinds the parent to the start
abort_rewinds(T, P) == seek(P, 0)

\* BytesIOTransaction.abort, also called by __exit__: the parent after it
abort(T, P) == P

\* ------------------------------------------------------------------------
\* The daemon: supervisor loop over the reactor
\* ------------------------------------------------------------------------
\* op: the operation; ip, data: the sender and the datagram delivered;
\* msg: the control request; send: what became of the broadcast; due: whether
\* the heartbeat was due; ticked: whether the step callbacks ran;
\* dropped: the peers the sweep removed; exc: the exception that escaped.
Call(op, ip, data, msg, send, due, ticked, dropped, exc) ==
    [op |-> op, ip |-> ip, data |-> data, msg |-> msg, send |-> send,
     due |-> due, ticked |-> ticked, dropped |-> dropped, exc |-> exc]

\* an operation without inputs that returned
Did(op) == Call(op, "-", NoData, NoMessage, "-", FALSE, FALSE, {}, "none")

\* the peers that were in the map of E and are not in the map of F
Dropped(E, F) == (DOMAIN E.ip_to_host) \ (DOMAIN F.ip_to_host)

\* whether on_announce_timeout called at t passes its throttle
Due(E, t) == t - E.last_announce_time >= ANNOUNCE_ALARM

\* what became of the broadcast: nothing is sent on a throttled call
Outcome(E, t, send) == IF Due(E, t) THEN send ELSE "-"

\* StepCallbackProcessor.run_step_callbacks
run_step_callbacks(E, t, send) ==
    IF "on_announce_timeout" \in step_callbacks
    THEN on_announce_timeout(E, t, send)
    ELSE [E |-> E, exc |-> "none"]

SetEngine(E) ==
    /\ last_announce_time' = E.last_announce_time
    /\ peer_last_announce_time' = E.peer_last_announce_time
    /\ host_to_ips' = E.host_to_ips
    /\ ip_to_host' = E.ip_to_host
    /\ peer_buffers' = E.peer_buffers
    /\ sent' = E.sent

SetReactor(R) ==
    /\ callbacks' = R.callbacks
    /\ fd_events' = R.fd_events
    /\ pollster' = R.pollster

SetControl(C) ==
    /\ clients' = C.clients
    /\ client_buffers' = C.client_buffers
    /\ done' = C.done
    /\ closed_socks' = C.closed_socks

\* The threads that read host_names: run_service, the DBus service and the
\* SOCKS resolver
Readers == {"service", "dbus", "socks"}

\* the locals of protocol_handler before its first iteration
NoPending == [sender |-> "-", name |-> << >>, to_delete |-> {}, deadline |-> 0]

\* nothing read yet
NoSeen == [by |-> "-", host_names |-> EmptyMap, during |-> "-"]

\* what a callback of the proxy did: op, the callback; fd, the descriptor
\* polled; exc, the exception it raised; created, the type of the session
\* it constructed; resolver, what get_real_address handed to getaddrinfo;
\* getaddrinfo and connect, what the system made of them
NoSocksCall ==
    [op |-> "-", fd |-> "-", exc |-> "none", created |-> "-", address |-> << >>,
     resolver |-> [ip |-> "-", name |-> << >>], getaddrinfo |-> "-", connect |-> "-"]

\* SessionManager before its thread has constructed it
NewSessionManager == [pc |-> "init", deadline |-> 0, fds |-> {}, closed |-> {}]

Idle ==
    /\ now = Epoch
    /\ last_announce_time = NewEngine.last_announce_time
    /\ peer_last_announce_time = NewEngine.peer_last_announce_time
    /\ host_to_ips = NewEngine.host_to_ips
    /\ ip_to_host = NewEngine.ip_to_host
    /\ peer_buffers = NewEngine.peer_buffers
    /\ sent = NewEngine.sent
    /\ server_sock = "none"
    /\ callbacks = NewReactor.callbacks
    /\ fd_events = NewReactor.fd_events
    /\ pollster = NewReactor.pollster
    /\ step_callbacks = {}
    /\ pc = "init"
    /\ done = NewControl.done
    /\ clients = NewControl.clients
    /\ client_buffers = NewControl.client_buffers
    /\ closed_socks = NewControl.closed_socks
    /\ wire = EmptyMap
    /\ select_reactor = NewSelectReactor
    /\ fired = << >>
    /\ select_call = [exc |-> "none", fired |-> << >>]
    /\ replies = << >>
    /\ last_call = Call("init", "-", NoData, NoMessage, "-", FALSE, FALSE, {}, "none")
    /\ host_names = EmptyMap
    /\ age = EmptyMap
    /\ last_heartbeat = 0
    /\ quit_event = FALSE
    /\ thread_pc = "start"
    /\ thread_sent = << >>
    /\ host_names_lock = "none"
    /\ section = "top"
    /\ pending = NoPending
    /\ readers = [r \in Readers |-> "idle"]
    /\ seen = NoSeen
    /\ service_pc = "start"
    /\ socks = NewSessionManager
    /\ quit_time = 0
    /\ manager_fds = EmptyMap
    /\ sessions = << >>
    /\ sockets = EmptyMap
    /\ socks_call = NoSocksCall

\* nothing has been handed to a codec
NoOutcome ==
    [stage |-> "none", exc |-> "none", data |-> << >>, message |-> NoMessage,
     pos |-> 0, class |-> "-"]

Untried == subject = NoMessage /\ outcome = NoOutcome

Init ==
    /\ Idle
    /\ parent = BytesIO(<< >>)
    /\ txn = NoTxn
    /\ Untried

\* The supervisor opens the announce engine (bind the socket on the reactor,
\* install the step callback, make the first announce), then the control
\* engine (bind the listening socket)
Open(send) ==
    /\ pc = "init"
    /\ \E r \in {on_announce_timeout(Engine, now, send)} :
          /\ SetEngine(r.E)
          /\ last_call' = Call("open", "-", NoData, NoMessage,
                               Outcome(Engine, now, send), Due(Engine, now),
                               FALSE, Dropped(Engine, r.E), r.exc)
    /\ server_sock' = "open"
    /\ SetReactor(bind(bind(Reactor, "udp", {READABLE}, "on_message", "ok").R,
                       "ctl", {READABLE}, "on_connect", "ok").R)
    /\ step_callbacks' = step_callbacks \cup {"on_announce_timeout"}
    /\ pc' = "running"
    /\ UNCHANGED <<now, done, replies>>
    /\ UNCHANGED <<cvars, xvars, tvars, svars, lvars>>
    /\ UNCHANGED kvars

\* the timeout the supervisor hands to reactor.poll
PollTimeoutValue == get_time_until_next_announce(Engine, now)

\* the step callbacks of a poll that returns at t, and the loop after them
Step(op, host, data, message, E, t, send) ==
    \E s \in {run_step_callbacks(E, t, send)} :
        /\ SetEngine(s.E)
        /\ pc' = IF s.exc = "none" THEN "running" ELSE "crashed"
        /\ last_call' = Call(op, host, data, message, Outcome(E, t, send),
                             Due(E, t), TRUE, Dropped(E, s.E), s.exc)

\* One iteration of the supervisor loop in which the UDP socket becomes
\* readable d seconds into the poll: the reactor dispatches the READABLE
\* callback, then the step callbacks.  An exception of a callback leaves
\* poll at once and ends the loop.
PollNet(d, host, data, send) ==
    /\ pc = "running" /\ ~done
    /\ server_sock = "open"
    /\ d <= PollTimeoutValue
    /\ now + d <= MaxTime
    /\ now' = now + d
    /\ \E m \in {IF <<"udp", "READABLE">> \in DOMAIN callbacks
                 THEN on_message(Engine, host, data, now + d)
                 ELSE [E |-> Engine, exc |-> "none"]} :
          IF m.exc # "none"
          THEN /\ SetEngine(m.E)
               /\ pc' = "crashed"
               /\ last_call' = Call("net", host, Digest(data), NoMessage, "-",
                                    FALSE, FALSE, {}, m.exc)
          ELSE Step("net", host, Digest(data), NoMessage, m.E, now + d, send)
    /\ replies' = << >>
    /\ UNCHANGED <<server_sock, callbacks, step_callbacks, done>>
    /\ UNCHANGED <<rvars, cvars, xvars, tvars, svars, lvars>>
    /\ UNCHANGED kvars

\* One iteration in which nothing becomes ready: poll returns when its
\* timeout expires and runs the step callbacks.
PollTimeout(send) ==
    /\ pc = "running" /\ ~done
    /\ now + PollTimeoutValue <= MaxTime
    /\ now' = now + PollTimeoutValue
    /\ Step("timeout", "-", NoData, NoMessage, Engine, now + PollTimeoutValue, send)
    /\ replies' = << >>
    /\ UNCHANGED <<server_sock, callbacks, step_callbacks, done>>
    /\ UNCHANGED <<rvars, cvars, xvars, tvars, svars, lvars>>
    /\ UNCHANGED kvars

\* One iteration in which a control client's request arrives d seconds into
\* the poll: the control engine dispatches it, then the step callbacks run.
\* on_message_recv catches an OSError only: any other exception leaves poll
\* at once and ends the loop.
PollControl(d, message, o, send) ==
    /\ pc = "running" /\ ~done
    /\ d <= PollTimeoutValue
    /\ now + d <= MaxTime
    /\ now' = now + d
    /\ \E c \in {handle_message(Engine, message, o, done)} :
          /\ replies' = c.out
          /\ done' = c.done
          /\ IF c.exc # "none"
             THEN /\ SetEngine(c.E)
                  /\ pc' = "crashed"
                  /\ last_call' = Call("control", "-", NoData, message, "-",
                                       FALSE, FALSE, {}, c.exc)
             ELSE Step("control", "-", NoData, message, c.E, now + d, send)
    /\ UNCHANGED <<server_sock, callbacks, step_callbacks>>
    /\ UNCHANGED <<rvars, cvars, xvars, tvars, svars, lvars>>
    /\ UNCHANGED kvars

\* One iteration in which the listening socket becomes readable: a client
\* connects on fd, having written script.  The reactor dispatches on_connect,
\* then the step callbacks.
PollAccept(fd, script, send) ==
    /\ pc = "running" /\ ~done
    /\ fd \notin DOMAIN wire
    /\ Get(callbacks, <<"ctl", READABLE>>, "EMPTY_CALLBACK") = "on_connect"
    /\ \E c \in {on_connect(Control, Reactor, fd)} :
          /\ SetControl(c.C)
          /\ SetReactor(c.R)
          /\ IF c.exc # "none"
             THEN /\ SetEngine(Engine)
                  /\ pc' = "crashed"
                  /\ last_call' = Call("accept", fd, NoData, NoMessage, "-",
                                       FALSE, FALSE, {}, c.exc)
             ELSE Step("accept", fd, NoData, NoMessage, Engine, now, send)
    /\ wire' = Put(wire, fd, script)
    /\ replies' = << >>
    /\ UNCHANGED <<now, server_sock, step_callbacks>>
    /\ UNCHANGED <<xvars, tvars, svars, lvars>>
    /\ UNCHANGED kvars

\* what a poll that served a client has done: the bytes it received and
\* the messages it dispatched
Served(chunk, dispatched) ==
    [type |-> "recv", received |-> Len(chunk), dispatched |-> dispatched]

\* One iteration in which the client fd becomes readable: recv returns the
\* next bytes on the wire, n of them at most, or nothing once the client
\* has closed its end.  The reactor dispatches on_message_recv, then the
\* step callbacks.  A callback that never returns hangs the loop.
PollRecv(fd, n, recv, o, send) ==
    /\ pc = "running" /\ ~done
    /\ fd \in clients
    /\ Get(callbacks, <<fd, READABLE>>, "EMPTY_CALLBACK") = "on_message_recv"
    /\ LET chunk == SubSeq(wire[fd], 1, Min(Min(n, BUFFER_SIZE), Len(wire[fd])))
       IN /\ wire' = Put(wire, fd, Slice(wire[fd], Len(chunk)))
          /\ \E r \in {on_message_recv(Control, Engine, Reactor, fd, chunk, recv, o)} :
                /\ SetControl(r.C)
                /\ SetReactor(r.R)
                /\ replies' = r.out
                /\ IF r.exc # "none"
                   THEN /\ SetEngine(r.E)
                        /\ pc' = IF r.exc = "NoReturn" THEN "hung" ELSE "crashed"
                        /\ last_call' = Call("recv", fd, NoData,
                                             Served(chunk, r.dispatched), "-",
                                             FALSE, FALSE, {}, r.exc)
                   ELSE Step("recv", fd, NoData, Served(chunk, r.dispatched),
                             r.E, now, send)
    /\ UNCHANGED <<now, server_sock, step_callbacks>>
    /\ UNCHANGED <<xvars, tvars, svars, lvars>>
    /\ UNCHANGED kvars

\* The supervisor leaves its loop once is_running() is false and closes the
\* control engine, then the announce engine.
Shutdown ==
    /\ pc = "running" /\ done
    /\ \E c \in {close(Control, Reactor)} :
          /\ SetControl(c.C)
          /\ SetReactor(c.R)
          /\ pc' = IF c.exc = "none" THEN "stopped" ELSE "crashed"
          /\ server_sock' = IF c.exc = "none" THEN "closed" ELSE server_sock
          /\ last_call' = Call("close", "-", NoData, NoMessage, "-", FALSE, FALSE,
                               {}, c.exc)
    /\ UNCHANGED <<now, last_announce_time, peer_last_announce_time,
                   host_to_ips, ip_to_host, peer_buffers,
                   step_callbacks, sent, replies, wire>>
    /\ UNCHANGED <<xvars, tvars, svars, lvars>>
    /\ UNCHANGED kvars

\* The daemon among well-behaved peers: Announces arrive at any of the
\* delays, polls time out, broadcasts succeed or fail.
Next ==
    \/ \E send \in SendResults : Open(send)
    \/ \E d \in Delays, host \in IPs, data \in Announces, send \in SendResults :
           PollNet(d, host, data, send)
    \/ \E send \in SendResults : PollTimeout(send)

Spec == Init /\ [][Next]_vars

\* The loop keeps running: a poll whose timeout expires returns.
FairSpec == Spec /\ WF_vars(\E send \in SendResults : PollTimeout(send))

\* The daemon under arbitrary traffic: any datagram from any peer, arriving
\* as soon as the daemon polls or not before the poll times out; broadcasts
\* succeed.
NextFrames ==
    \/ Open("ok")
    \/ \E host \in IPs, data \in Datagrams : PollNet(0, host, data, "ok")
    \/ PollTimeout("ok")

SpecFrames == Init /\ [][NextFrames]_vars

\* The daemon serving a control client, its peers announcing short names
\* and a name of full length.
NextControl ==
    \/ Open("ok")
    \/ \E host \in IPs, name \in Names \cup {LongName} :
           PollNet(0, host, serialize(name), "ok")
    \/ PollTimeout("ok")
    \/ \E message \in Requests, o \in Orders : PollControl(0, message, o, "ok")
    \/ Shutdown

SpecControl == Init /\ [][NextControl]_vars

\* The bytes of a list of dictionaries, each length-encoded
RECURSIVE script(_)
script(documents) ==
    IF Len(documents) = 0 THEN << >>
    ELSE length_encode_json(Head(documents)) \o script(Tail(documents))

AskName == Host(NameA)
AskOne == IP(<<ip_text("10.0.0.1")>>)
AskNone == IP(<< >>)
AskTwo == IP(<<ip_text("10.0.0.1"), ip_text("10.0.0.2")>>)

\* What a well-behaved client writes: one request or two
GoodScripts ==
    {script(l) : l \in {<<AskName>>, <<AskOne>>, <<AskNone>>, <<GetAll>>, <<Quit>>,
                        <<AskTwo, AskName>>, <<AskOne, GetAll>>, <<GetAll, AskOne>>,
                        <<Quit, GetAll>>, <<AskName, Quit>>}}

\* How many bytes a recv may return at most
ChunkSizes == {1, 7, BUFFER_SIZE}

\* The daemon serving one control client that writes well-formed requests,
\* which arrive in chunks of any of the sizes; one peer announces a short
\* name or a name of full length.
NextStream ==
    \/ Open("ok")
    \/ \E name \in {NameA, LongName} : PollNet(0, "10.0.0.1", serialize(name), "ok")
    \/ \E s \in GoodScripts : PollAccept("c1", s, "ok")
    \/ \E n \in ChunkSizes, o \in Orders : PollRecv("c1", n, "ok", o, "ok")
    \/ Shutdown

SpecStream == Init /\ [][NextStream]_vars

\* What a client may write that is no well-formed request: a frame that is
\* no JSON text, alone or before a request; the text null before a request;
\* a dictionary of unknown type or without one; a request that its message
\* class refuses
BadScripts ==
    {frame(NotJson), frame(NotUtf8), frame(NoText),
     frame(NotJson) \o script(<<GetAll>>),
     frame(JsonNull) \o script(<<GetAll>>),
     script(<<UnknownType>>), script(<<MissingType>>),
     script(<<UnknownType, GetAll>>),
     script(<<Host(<< >>)>>), script(<<IP(<<ShortAddress>>)>>),
     script(<<GetAll, Host(<< >>)>>)}

\* The daemon serving two control clients: the first writes what is no
\* well-formed request, the second a request and then Quit.
NextBadFrames ==
    \/ Open("ok")
    \/ PollNet(0, "10.0.0.1", serialize(NameA), "ok")
    \/ \E s \in BadScripts : PollAccept("c1", s, "ok")
    \/ \E s \in {script(<<GetAll>>), script(<<GetAll, Quit>>)} : PollAccept("c2", s, "ok")
    \/ \E fd \in {"c1", "c2"}, n \in {3, BUFFER_SIZE}, recv \in {"ok", "OSError"} :
           PollRecv(fd, n, recv, <<"10.0.0.1", "10.0.0.2">>, "ok")
    \/ Shutdown

SpecBadFrames == Init /\ [][NextBadFrames]_vars

\* ------------------------------------------------------------------------
\* The reactor driven on its own, by a program that binds, unbinds and polls
\* ------------------------------------------------------------------------
\* The callbacks of that program: two that return, one that unbinds the
\* descriptor f2 (if the reactor knows it) without naming events
UserCallbacks == {"cb1", "cb2", "unbind_f2"}

\* callback((fd, event)): the reactor after it, and what it raised
run_callback(R, callback, order) ==
    IF callback = "unbind_f2" /\ "f2" \in DOMAIN R.fd_events
    THEN unbind(R, "f2", NoEvents, order, "ok")
    ELSE [R |-> R, exc |-> "none"]

\* self.callbacks.get((fd, event), EMPTY_CALLBACK)
lookup(R, fd, event) ==
    Get(R.callbacks, <<fd, event>>, "EMPTY_CALLBACK")

\* What poll has come to: the reactor, the callbacks it invoked, each with
\* its fd and event, and the exception that left a callback
Polled(R, log, exc) == [R |-> R, fired |-> log, exc |-> exc]

\* the dispatch of poll for one fd: READABLE, then WRITABLE, then ERROR
RECURSIVE dispatch(_, _, _, _, _)
dispatch(R, fd, listed, order, log) ==
    IF Len(listed) = 0
    THEN Polled(R, log, "none")
    ELSE The({
        IF callback = "EMPTY_CALLBACK"
        THEN dispatch(R, fd, Tail(listed), order, log)
        ELSE The({
            IF c.exc # "none"
            THEN Polled(c.R, Append(log, <<callback, fd, Head(listed)>>), c.exc)
            ELSE dispatch(c.R, fd, Tail(listed), order,
                          Append(log, <<callback, fd, Head(listed)>>)) :
            c \in {run_callback(R, callback, order)}}) :
        callback \in {lookup(R, fd, Head(listed))}})

\* the loop of poll with the write callback run before the read callback
RECURSIVE poll_events_write_first(_, _, _, _)
poll_events_write_first(R, events, order, log) ==
    IF Len(events) = 0
    THEN Polled(R, log, "none")
    ELSE The({
        IF p.exc # "none" THEN p
        ELSE poll_events_write_first(p.R, Tail(events), order, p.fired) :
        p \in {dispatch(R, Head(events)[1],
                        SelectSeq(<<WRITABLE, READABLE, ERROR>>,
                                  LAMBDA e : e \in flags_to_event_set(Head(events)[2])),
                        order, log)}})

\* the loop of poll over the events the poller returned, each a descriptor
\* and a flag
RECURSIVE poll_events(_, _, _, _)
poll_events(R, events, order, log) ==
    IF Len(events) = 0
    THEN Polled(R, log, "none")
    ELSE The({
        IF p.exc # "none" THEN p
        ELSE poll_events(p.R, Tail(events), order, p.fired) :
        p \in {dispatch(R, Head(events)[1],
                        SelectSeq(<<READABLE, WRITABLE, ERROR>>,
                                  LAMBDA e : e \in flags_to_event_set(Head(events)[2])),
                        order, log)}})

\* run_step_callbacks: each callback of the set, once, in the order in which
\* the set is iterated
RECURSIVE step_entries(_)
step_entries(steps) ==
    IF steps = {} THEN << >>
    ELSE The({<<<<callback, "-", "-">>>> \o step_entries(steps \ {callback}) :
              callback \in {CHOOSE c \in steps : TRUE}})

\* PollLikeReactor.poll: the dispatch, then the step callbacks
poll(R, events, steps, order) ==
    The({
        IF p.exc # "none" THEN p
        ELSE Polled(p.R, p.fired \o step_entries(steps), "none") :
        p \in {poll_events(R, events, order, << >>)}})

\* SelectReactor.has_clients
select_has_clients(S) ==
    S.readers # EmptyMap \/ S.writers # EmptyMap \/ S.errors # EmptyMap

\* the callback of the program, given the SelectReactor
select_run_callback(S, callback) ==
    IF callback = "unbind_f2" /\ \E e \in Events : select_lookup(S, "f2", e) # "EMPTY_CALLBACK"
    THEN select_unbind(S, "f2", NoEvents)
    ELSE S

\* one loop of SelectReactor.poll: the descriptors select returned for one
\* event, in order
RECURSIVE select_dispatch(_, _, _, _)
select_dispatch(S, listed, event, log) ==
    IF Len(listed) = 0
    THEN [S |-> S, fired |-> log]
    ELSE The({
        IF callback = "EMPTY_CALLBACK"
        THEN select_dispatch(S, Tail(listed), event, log)
        ELSE select_dispatch(select_run_callback(S, callback), Tail(listed), event,
                             Append(log, <<callback, Head(listed), event>>)) :
        callback \in {select_lookup(S, Head(listed), event)}})

\* what select.select returns for one of its three lists: the descriptors
\* of the list that are ready for the event, the readiness being given as
\* descriptors with flags
selected(watched, events, flag) ==
    LET ready == SelectSeq(events, LAMBDA ev : ev[1] \in DOMAIN watched /\ flag \cap ev[2] # {})
    IN [i \in DOMAIN ready |-> ready[i][1]]

\* SelectReactor.poll returning without running the step callbacks
select_poll_no_steps(S, events, steps) ==
    [S |-> S, fired |-> << >>, exc |-> "none"]

\* SelectReactor.poll: without clients only the step callbacks; otherwise
\* the readers, then the writers, then the errors, then the step callbacks
select_poll(S, events, steps) ==
    IF ~select_has_clients(S)
    THEN [S |-> S, fired |-> step_entries(steps), exc |-> "none"]
    ELSE The({
        [S |-> x.S, fired |-> x.fired \o step_entries(steps), exc |-> "none"] :
        x \in {select_dispatch(w.S, selected(S.errors, events, err_flags), ERROR, w.fired) :
               w \in {select_dispatch(r.S, selected(S.writers, events, write_flag), WRITABLE, r.fired) :
                      r \in {select_dispatch(S, selected(S.readers, events, read_flag), READABLE, << >>)}}}})

\* What a call of the program was: the events and the callback it named
Called(op, events, callback) ==
    [type |-> op, events |-> events, callback |-> callback]

\* The descriptors of the program
Fds == {"f1", "f2"}

\* The events it binds
BindEvents == {{READABLE}, {WRITABLE}, {READABLE, WRITABLE}}

\* The flags the poller may return for a descriptor registered with flags:
\* some of the events asked for
ReadyFlags(flags) ==
    {event_set_to_flags(S) : S \in (SUBSET flags_to_event_set(flags)) \ {{}}}

\* The batches the poller may return: one registered descriptor, or two in
\* either order
Batches ==
    {<< >>}
    \cup {<<<<fd, flag>>>> : fd \in {"f1"} \cap DOMAIN pollster, flag \in ReadyFlags(Get(pollster, "f1", {}))}
    \cup {<<<<fd, flag>>>> : fd \in {"f2"} \cap DOMAIN pollster, flag \in ReadyFlags(Get(pollster, "f2", {}))}
    \cup {<<<<"f1", a>>, <<"f2", b>>>> :
            a \in IF "f2" \in DOMAIN pollster THEN ReadyFlags(Get(pollster, "f1", {})) ELSE {},
            b \in IF "f1" \in DOMAIN pollster THEN ReadyFlags(Get(pollster, "f2", {})) ELSE {}}
    \cup {<<<<"f2", b>>, <<"f1", a>>>> :
            a \in IF "f2" \in DOMAIN pollster THEN ReadyFlags(Get(pollster, "f1", {})) ELSE {},
            b \in IF "f1" \in DOMAIN pollster THEN ReadyFlags(Get(pollster, "f2", {})) ELSE {}}

\* reactor.bind(fd, events, callback), on the poll-style reactor and on the
\* select-style one
ReactorBind(fd, events, callback, os) ==
    /\ pc = "init"
    /\ \E b \in {bind(Reactor, fd, events, callback, os)} :
          /\ SetReactor(b.R)
          /\ last_call' = Call("bind", fd, NoData, Called("bind", events, callback),
                               "-", FALSE, FALSE, {}, b.exc)
    /\ select_reactor' = select_bind(select_reactor, fd, events, callback)
    /\ select_call' = [exc |-> "none", fired |-> << >>]
    /\ fired' = << >>
    /\ UNCHANGED <<now, last_announce_time, peer_last_announce_time, host_to_ips,
                   ip_to_host, peer_buffers, server_sock, step_callbacks, sent,
                   pc, done, replies>>
    /\ UNCHANGED <<cvars, tvars, svars, lvars>>
    /\ UNCHANGED kvars

\* reactor.unbind(fd, events) or reactor.unbind(fd)
ReactorUnbind(fd, events, order, os) ==
    /\ pc = "init"
    /\ \E u \in {unbind(Reactor, fd, events, order, os)} :
          /\ SetReactor(u.R)
          /\ last_call' = Call("unbind", fd, NoData, Called("unbind", events, "-"),
                               "-", FALSE, FALSE, {}, u.exc)
    /\ select_reactor' = select_unbind(select_reactor, fd, events)
    /\ select_call' = [exc |-> "none", fired |-> << >>]
    /\ fired' = << >>
    /\ UNCHANGED <<now, last_announce_time, peer_last_announce_time, host_to_ips,
                   ip_to_host, peer_buffers, server_sock, step_callbacks, sent,
                   pc, done, replies>>
    /\ UNCHANGED <<cvars, tvars, svars, lvars>>
    /\ UNCHANGED kvars

\* reactor.add_step_callback(callback)
ReactorAddStep(callback) ==
    /\ pc = "init"
    /\ callback \notin step_callbacks
    /\ step_callbacks' = step_callbacks \cup {callback}
    /\ last_call' = Call("add_step_callback", "-", NoData, NoMessage, "-", FALSE,
                         FALSE, {}, "none")
    /\ select_call' = [exc |-> "none", fired |-> << >>]
    /\ fired' = << >>
    /\ UNCHANGED <<now, last_announce_time, peer_last_announce_time, host_to_ips,
                   ip_to_host, peer_buffers, server_sock, callbacks, sent,
                   pc, done, replies, select_reactor>>
    /\ UNCHANGED <<rvars, cvars, tvars, svars, lvars>>
    /\ UNCHANGED kvars

\* reactor.poll(0), the descriptors being ready as the batch of events
\* says, on the poll-style reactor and on the select-style one
ReactorPoll(events, order) ==
    /\ pc = "init"
    /\ \E p \in {poll(Reactor, events, step_callbacks, order)} :
          /\ SetReactor(p.R)
          /\ fired' = p.fired
          /\ last_call' = Call("poll", "-", NoData, Called("poll", events, "-"),
                               "-", FALSE, p.exc = "none", {}, p.exc)
    /\ \E q \in {select_poll(select_reactor, events, step_callbacks)} :
          /\ select_reactor' = q.S
          /\ select_call' = [exc |-> q.exc, fired |-> q.fired]
    /\ UNCHANGED <<now, last_announce_time, peer_last_announce_time, host_to_ips,
                   ip_to_host, peer_buffers, server_sock, step_callbacks, sent,
                   pc, done, replies>>
    /\ UNCHANGED <<cvars, tvars, svars, lvars>>
    /\ UNCHANGED kvars

\* reactor.poll(None) while no descriptor is registered: the poll-style
\* reactor waits in pollster.poll(-1) for an event that cannot come, the
\* select-style one runs the step callbacks and returns
ReactorPollNone ==
    /\ pc = "init"
    /\ pollster = EmptyMap
    /\ ~select_has_clients(select_reactor)
    /\ fired' = << >>
    /\ last_call' = Call("poll", "-", NoData, Called("poll(None)", << >>, "-"),
                         "-", FALSE, FALSE, {}, "NoReturn")
    /\ \E q \in {select_poll(select_reactor, << >>, step_callbacks)} :
          /\ select_reactor' = q.S
          /\ select_call' = [exc |-> q.exc, fired |-> q.fired]
    /\ UNCHANGED <<now, last_announce_time, peer_last_announce_time, host_to_ips,
                   ip_to_host, peer_buffers, server_sock, callbacks, step_callbacks,
                   sent, pc, done, replies>>
    /\ UNCHANGED <<rvars, cvars, tvars, svars, lvars>>
    /\ UNCHANGED kvars

\* The callbacks the program binds on a descriptor: f1 gets any of them, f2
\* the ones that return
CallbacksOf(fd) == IF fd = "f1" THEN UserCallbacks ELSE {"cb2"}

\* The poller refuses only calls about f2
OutcomesOf(fd) == IF fd = "f1" THEN {"ok"} ELSE PollsterResults

\* The two orders in which a set holding READABLE and WRITABLE is iterated
UnbindOrders == {<<READABLE, WRITABLE, ERROR>>, <<WRITABLE, READABLE, ERROR>>}

NextReactor ==
    \/ \E fd \in Fds, events \in BindEvents :
          \E callback \in CallbacksOf(fd), os \in OutcomesOf(fd) :
             ReactorBind(fd, events, callback, os)
    \/ \E fd \in Fds, events \in BindEvents \cup {NoEvents}, order \in UnbindOrders :
          \E os \in OutcomesOf(fd) : ReactorUnbind(fd, events, order, os)
    \/ ReactorAddStep("step")
    \/ \E events \in Batches : ReactorPoll(events, AnyOrder)

SpecReactor == Init /\ [][NextReactor]_vars

\* ------------------------------------------------------------------------
\* The two reactors given the same calls by a program whose poller accepts
\* every call, the error event included
\* ------------------------------------------------------------------------
\* The event sets the program binds
PollEvents == {{READABLE}, {WRITABLE, ERROR}, {READABLE, WRITABLE, ERROR}}

\* The step callbacks of the program
StepCallbacks == {"step", "step2"}

\* What may be ready on a descriptor registered with flags: some of the
\* events asked for
Readiness(fd) == ReadyFlags(Get(pollster, fd, {}))

\* The descriptors ready at one poll: none, f1, or both in either order
ReadyBatches ==
    {<< >>}
    \cup {<<<<"f1", a>>>> : a \in Readiness("f1")}
    \cup {<<<<"f1", a>>, <<"f2", b>>>> : a \in Readiness("f1"), b \in Readiness("f2")}
    \cup {<<<<"f2", b>>, <<"f1", a>>>> : a \in Readiness("f1"), b \in Readiness("f2")}

NextPoll ==
    \/ \E fd \in Fds, events \in PollEvents :
          \E callback \in CallbacksOf(fd) : ReactorBind(fd, events, callback, "ok")
    \/ \E fd \in Fds, events \in {NoEvents, {READABLE}} :
          ReactorUnbind(fd, events, AnyOrder, "ok")
    \/ \E callback \in StepCallbacks : ReactorAddStep(callback)
    \/ \E events \in ReadyBatches : ReactorPoll(events, AnyOrder)
    \/ ReactorPollNone

SpecPoll == Init /\ [][NextPoll]_vars

\* ------------------------------------------------------------------------
\* The threaded daemon (lns/proto.py, protocol_handler)
\* ------------------------------------------------------------------------
MSG_SIZE == 512
ANNOUNCE == 1
CONFLICT == 2

\* the defaults of lnsd.heartbeat and lnsd.timeout, in seconds
lnsd_heartbeat == 10
lnsd_timeout == 30

\* lnsd.name
lnsd_name == NameA

NoneMessage == [type |-> "None", name |-> << >>]
ConflictMessage == [type |-> "Conflict", name |-> << >>]
AnnounceMessage(name) == [type |-> "Announce", name |-> name]

\* get_message: an Announce, a Conflict or None
get_message(raw) ==
    LET pkt_type == raw[1]
        rest == Slice(raw, 1)
        first_nul == find_nul(rest)
        name == IF first_nul > -1 THEN SubSeq(rest, 1, first_nul) ELSE rest
    IN IF pkt_type = ANNOUNCE
       THEN IF \E i \in 1..Len(name) : name[i] <= 32 \/ name[i] = 127
            THEN NoneMessage
            ELSE AnnounceMessage(name)
       ELSE IF pkt_type = CONFLICT
       THEN ConflictMessage
       ELSE NoneMessage

\* send_message: the datagram that goes out
send_message(message) ==
    IF message.type = "Conflict"
    THEN <<CONFLICT>> \o Nuls(MSG_SIZE - 1)
    ELSE <<ANNOUNCE>> \o message.name \o Nuls(MSG_SIZE - 1 - Len(message.name))

\* name in ~host_names
name_in_inverse(b, name) == \E ip \in DOMAIN b : b[ip] = name

\* host_names[:name]
owner_of(b, name) == CHOOSE ip \in DOMAIN b : b[ip] = name

\* (~host_names).get(name, None), as the service answers a Name query
owners(b, name) == {ip \in DOMAIN b : b[ip] = name}

\* the fields of the handler as one record; exit is "none", "exit" after
\* sys.exit(2) or the exception that ended the thread
Thread ==
    [host_names |-> host_names, age |-> age, last_heartbeat |-> last_heartbeat,
     out |-> << >>, exit |-> "none"]

\* the heartbeat of one iteration
thread_heartbeat(T, t) ==
    IF t - T.last_heartbeat >= lnsd_heartbeat
    THEN [T EXCEPT !.out = Append(@, Digest(send_message(AnnounceMessage(lnsd_name)))),
                   !.last_heartbeat = t]
    ELSE T

\* the body of the event loop for one datagram
thread_receive(T, raw, sender_ip, t) ==
    LET message == get_message(raw)
        T1 == [T EXCEPT !.age = Put(@, sender_ip, t)]
    IN IF message.type = "Announce"
       THEN IF /\ name_in_inverse(T.host_names, message.name)
               /\ owner_of(T.host_names, message.name) # sender_ip
            THEN [T1 EXCEPT !.out = Append(@, Digest(send_message(ConflictMessage)))]
            ELSE [T1 EXCEPT !.host_names = Put(Del(@, sender_ip), sender_ip, message.name)]
       ELSE IF message.type = "Conflict"
       THEN [T1 EXCEPT !.exit = "exit"]
       ELSE T1

\* the deletion loop: del of a host that has no name raises a KeyError
RECURSIVE thread_delete(_, _)
thread_delete(T, to_delete) ==
    IF to_delete = {}
    THEN T
    ELSE LET host == CHOOSE h \in to_delete : TRUE
         IN IF host \notin DOMAIN T.host_names
            THEN [T EXCEPT !.exit = "KeyError"]
            ELSE thread_delete([T EXCEPT !.host_names = Del(@, host),
                                         !.age = Del(@, host)],
                               to_delete \ {host})

\* the removal of the hosts that sent nothing recently
thread_sweep(T, t) ==
    thread_delete(T, {host \in DOMAIN T.age : t - T.age[host] > lnsd_timeout})

RECURSIVE thread_events(_, _, _)
thread_events(T, events, t) ==
    IF events = << >> \/ T.exit # "none"
    THEN T
    ELSE thread_events(thread_receive(T, Head(events).raw, Head(events).sender, t),
                       Tail(events), t)

\* one iteration of the loop after poll has returned events at t
thread_iteration(T, events, t) ==
    LET T2 == thread_events(thread_heartbeat(T, t), events, t)
    IN IF T2.exit # "none" THEN T2 ELSE thread_sweep(T2, t)

\* the timeout of pollster.poll, in seconds
till_heartbeat == Max(lnsd_heartbeat - (now - last_heartbeat), 0)

SetThread(T) ==
    /\ host_names' = T.host_names
    /\ age' = T.age
    /\ last_heartbeat' = T.last_heartbeat
    /\ thread_sent' = T.out
    /\ thread_pc' = IF T.exit = "none" THEN "running"
                    ELSE IF T.exit = "exit" THEN "exited" ELSE "crashed"

\* protocol_handler up to its loop: the socket, the pollster, age and
\* last_heartbeat
ThreadStart ==
    /\ thread_pc = "start"
    /\ thread_pc' = "running"
    /\ age' = EmptyMap
    /\ last_heartbeat' = 0
    /\ last_call' = Call("start", "-", NoData, NoMessage, "-", FALSE, FALSE, {}, "none")
    /\ UNCHANGED <<now, host_names, quit_event, thread_sent>>
    /\ UNCHANGED <<dvars, svars, lvars>>
    /\ UNCHANGED kvars

\* One iteration in which a datagram arrives d seconds into the poll
ThreadReceive(d, sender, raw) ==
    /\ thread_pc = "running" /\ ~quit_event
    /\ d <= till_heartbeat
    /\ now + d <= MaxTime
    /\ now' = now + d
    /\ \E T \in {thread_iteration(Thread, <<[raw |-> raw, sender |-> sender]>>, now + d)} :
          /\ SetThread(T)
          /\ last_call' = Call("recv", sender, Digest(raw), NoMessage, "-",
                               now + d - last_heartbeat >= lnsd_heartbeat, TRUE,
                               (DOMAIN host_names) \ (DOMAIN T.host_names), T.exit)
    /\ UNCHANGED quit_event
    /\ UNCHANGED <<dvars, svars, lvars>>
    /\ UNCHANGED kvars

\* One iteration in which the poll times out
ThreadTimeout ==
    /\ thread_pc = "running" /\ ~quit_event
    /\ now + till_heartbeat <= MaxTime
    /\ now' = now + till_heartbeat
    /\ \E T \in {thread_iteration(Thread, << >>, now + till_heartbeat)} :
          /\ SetThread(T)
          /\ last_call' = Call("idle", "-", NoData, NoMessage, "-",
                               now + till_heartbeat - last_heartbeat >= lnsd_heartbeat, TRUE,
                               (DOMAIN host_names) \ (DOMAIN T.host_names), T.exit)
    /\ UNCHANGED quit_event
    /\ UNCHANGED <<dvars, svars, lvars>>
    /\ UNCHANGED kvars

\* lns/service.py: a Quit request sets the quit event
ServiceQuit ==
    /\ thread_pc = "running" /\ ~quit_event
    /\ quit_event' = TRUE
    /\ last_call' = Call("quit", "-", NoData, Quit, "-", FALSE, FALSE, {}, "none")
    /\ UNCHANGED <<now, host_names, age, last_heartbeat, thread_pc, thread_sent>>
    /\ UNCHANGED <<dvars, svars, lvars>>
    /\ UNCHANGED kvars

\* the loop finds the quit event set, closes the socket and returns
ThreadReturn ==
    /\ thread_pc = "running" /\ quit_event
    /\ section = "top"
    /\ thread_pc' = "returned"
    /\ last_call' = Call("return", "-", NoData, NoMessage, "-", FALSE, FALSE, {}, "none")
    /\ UNCHANGED <<now, host_names, age, last_heartbeat, quit_event, thread_sent>>
    /\ UNCHANGED <<dvars, svars, lvars>>
    /\ UNCHANGED kvars

\* what the threaded daemon may receive: Announces, a Conflict, a datagram
\* get_message rejects
ThreadDatagrams == Announces \cup {send_message(ConflictMessage), Unprintable}

NextThreaded ==
    \/ ThreadStart
    \/ \E d \in Delays, sender \in IPs, raw \in ThreadDatagrams : ThreadReceive(d, sender, raw)
    \/ ThreadTimeout
    \/ ServiceQuit
    \/ ThreadReturn

SpecThreaded == Init /\ [][NextThreaded]_vars

\* ------------------------------------------------------------------------
\* The threads of the daemon beside each other (lns/lnsd.py, LNS_Daemon.run):
\* protocol_handler in the main thread, run_service, the DBus service and
\* the SOCKS session manager in daemon threads, which end with the main one
\* ------------------------------------------------------------------------
\* the timeout of SessionManager.run's poll, in seconds
SOCKS_POLL == 5

\* the process lives as long as its main thread
Alive == thread_pc \in {"start", "running"}

\* with host_names_lock, without taking the lock
acquire_nothing(thread) == UNCHANGED host_names_lock

\* with host_names_lock: the thread goes on when no thread holds the lock,
\* and holds it then
acquire(thread) == host_names_lock = "none" /\ host_names_lock' = thread

\* the end of the with block
release(thread) == host_names_lock' = "none"

\* the top of the loop of protocol_handler with the quit event not set: the
\* timeout of the poll
LoopTop ==
    /\ thread_pc = "running" /\ section = "top" /\ ~quit_event
    /\ section' = "poll"
    /\ pending' = [NoPending EXCEPT !.deadline = now + till_heartbeat]
    /\ last_call' = Did("poll")
    /\ UNCHANGED <<now, tvars, dvars, svars, host_names_lock, readers, seen,
                   service_pc, socks, quit_time>>
    /\ UNCHANGED kvars

\* no thread is between two blocking calls: time passes
Blocked ==
    /\ socks.pc \in {"init", "poll", "closed"}
    /\ \A r \in Readers : readers[r] = "idle"

\* pollster.poll returns after d seconds, with at most one datagram; the
\* heartbeat and the datagram up to the with block
LoopPoll(d, events) ==
    /\ thread_pc = "running" /\ section = "poll"
    /\ now + d <= pending.deadline /\ now + d <= MaxTime
    /\ events = << >> => now + d = pending.deadline
    /\ d > 0 => Blocked /\ (socks.pc = "poll" => now + d <= socks.deadline)
    /\ now' = now + d
    /\ \E T \in {thread_heartbeat(Thread, now + d)} :
          /\ last_heartbeat' = T.last_heartbeat
          /\ IF events = << >>
             THEN /\ section' = "sweep"
                  /\ thread_sent' = T.out
                  /\ UNCHANGED <<age, pending, thread_pc>>
             ELSE \E message \in {get_message(events[1].raw)} :
                     /\ age' = Put(age, events[1].sender, now + d)
                     /\ IF message.type = "Announce"
                        THEN IF /\ name_in_inverse(host_names, message.name)
                                /\ owner_of(host_names, message.name) # events[1].sender
                             THEN /\ thread_sent' =
                                        Append(T.out, Digest(send_message(ConflictMessage)))
                                  /\ section' = "sweep"
                                  /\ UNCHANGED <<pending, thread_pc>>
                             ELSE /\ thread_sent' = T.out
                                  /\ section' = "update"
                                  /\ pending' = [pending EXCEPT
                                                    !.sender = events[1].sender,
                                                    !.name = message.name]
                                  /\ UNCHANGED thread_pc
                        ELSE /\ thread_sent' = T.out
                             /\ UNCHANGED pending
                             /\ IF message.type = "Conflict"
                                THEN thread_pc' = "exited" /\ section' = "top"
                                ELSE section' = "sweep" /\ UNCHANGED thread_pc
    /\ last_call' = Did("iteration")
    /\ UNCHANGED <<host_names, quit_event, dvars, svars, host_names_lock, readers,
                   seen, service_pc, socks, quit_time>>
    /\ UNCHANGED kvars

\* with lnsd.host_names_lock, for the new name of a host
UpdateLock ==
    /\ thread_pc = "running" /\ section = "update"
    /\ acquire("announce")
    /\ section' = "del"
    /\ last_call' = Did("acquire")
    /\ UNCHANGED <<now, tvars, dvars, svars, pending, readers, seen, service_pc,
                   socks, quit_time>>
    /\ UNCHANGED kvars

\* if sender_ip in lnsd.host_names: del lnsd.host_names[sender_ip:]
UpdateDelete ==
    /\ thread_pc = "running" /\ section = "del"
    /\ host_names' = IF pending.sender \in DOMAIN host_names
                     THEN Del(host_names, pending.sender)
                     ELSE host_names
    /\ section' = "insert"
    /\ last_call' = Did("del")
    /\ UNCHANGED <<now, age, last_heartbeat, quit_event, thread_pc, thread_sent, dvars,
                   svars, host_names_lock, pending, readers, seen, service_pc, socks,
                   quit_time>>
    /\ UNCHANGED kvars

\* lnsd.host_names[sender_ip:] = message.name, and the end of the with block
UpdateInsert ==
    /\ thread_pc = "running" /\ section = "insert"
    /\ host_names' = Put(host_names, pending.sender, pending.name)
    /\ release("announce")
    /\ section' = "sweep"
    /\ last_call' = Did("insert")
    /\ UNCHANGED <<now, age, last_heartbeat, quit_event, thread_pc, thread_sent, dvars,
                   svars, pending, readers, seen, service_pc, socks, quit_time>>
    /\ UNCHANGED kvars

\* the hosts that sent nothing recently, and with lnsd.host_names_lock
SweepLock ==
    /\ thread_pc = "running" /\ section = "sweep"
    /\ acquire("announce")
    /\ pending' = [pending EXCEPT
                      !.to_delete = {host \in DOMAIN age : now - age[host] > lnsd_timeout}]
    /\ section' = "pop"
    /\ last_call' = Did("acquire")
    /\ UNCHANGED <<now, tvars, dvars, svars, readers, seen, service_pc, socks,
                   quit_time>>
    /\ UNCHANGED kvars

\* host = to_delete.pop(); del lnsd.host_names[host:]; del age[host].  A
\* host without a name raises a KeyError, which leaves the with block
SweepPop ==
    /\ thread_pc = "running" /\ section = "pop"
    /\ pending.to_delete # {}
    /\ \E host \in {CHOOSE h \in pending.to_delete : TRUE} :
          IF host \notin DOMAIN host_names
          THEN /\ release("announce")
               /\ thread_pc' = "crashed"
               /\ section' = "top"
               /\ UNCHANGED <<host_names, age, pending>>
          ELSE /\ host_names' = Del(host_names, host)
               /\ age' = Del(age, host)
               /\ pending' = [pending EXCEPT !.to_delete = @ \ {host}]
               /\ UNCHANGED <<host_names_lock, thread_pc, section>>
    /\ last_call' = Did("pop")
    /\ UNCHANGED <<now, last_heartbeat, quit_event, thread_sent, dvars, svars, readers,
                   seen, service_pc, socks, quit_time>>
    /\ UNCHANGED kvars

\* while to_delete is over: the end of the with block and of the iteration
SweepUnlock ==
    /\ thread_pc = "running" /\ section = "pop"
    /\ pending.to_delete = {}
    /\ release("announce")
    /\ section' = "top"
    /\ last_call' = Did("release")
    /\ UNCHANGED <<now, tvars, dvars, svars, pending, readers, seen, service_pc, socks,
                   quit_time>>
    /\ UNCHANGED kvars

\* whether a reader thread is where it reads host_names: run_service in its
\* loop, a DBus method at any time, the SOCKS manager in get_real_address
CanRead(r) ==
    IF r = "service" THEN service_pc = "serving"
    ELSE IF r = "socks" THEN socks.pc = "resolve"
    ELSE TRUE

\* with lnsd.host_names_lock, of a reader
ReaderLock(r) ==
    /\ Alive /\ readers[r] = "idle" /\ CanRead(r)
    /\ acquire(r)
    /\ readers' = [readers EXCEPT ![r] = "locked"]
    /\ last_call' = Did("acquire")
    /\ UNCHANGED <<now, tvars, dvars, svars, section, pending, seen, service_pc, socks,
                   quit_time>>
    /\ UNCHANGED kvars

\* the read inside the with block: a look-up in host_names or its inverse,
\* or a copy of it
ReaderRead(r) ==
    /\ Alive /\ readers[r] = "locked"
    /\ seen' = [by |-> r, host_names |-> host_names, during |-> section]
    /\ readers' = [readers EXCEPT ![r] = "read"]
    /\ last_call' = Did("read")
    /\ UNCHANGED <<now, tvars, dvars, svars, host_names_lock, section, pending,
                   service_pc, socks, quit_time>>
    /\ UNCHANGED kvars

\* the end of the with block of a reader; the SOCKS manager goes on to the
\* top of its loop
ReaderUnlock(r) ==
    /\ Alive /\ readers[r] = "read"
    /\ release(r)
    /\ readers' = [readers EXCEPT ![r] = "idle"]
    /\ seen' = NoSeen
    /\ socks' = IF r = "socks" THEN [socks EXCEPT !.pc = "top"] ELSE socks
    /\ last_call' = Did("release")
    /\ UNCHANGED <<now, tvars, dvars, svars, section, pending, service_pc, quit_time>>
    /\ UNCHANGED kvars

\* run_service binds the command port; if it cannot, it sets the quit
\* event and returns
ServiceBind(os) ==
    /\ Alive /\ service_pc = "start"
    /\ IF os = "ok"
       THEN service_pc' = "serving" /\ UNCHANGED <<quit_event, quit_time>>
       ELSE /\ service_pc' = "ended"
            /\ quit_event' = TRUE
            /\ quit_time' = IF quit_event THEN quit_time ELSE now
    /\ last_call' = Did("bind")
    /\ UNCHANGED <<now, host_names, age, last_heartbeat, thread_pc, thread_sent, dvars,
                   svars, host_names_lock, section, pending, readers, seen, socks>>
    /\ UNCHANGED kvars

\* a Quit message to run_service, which leaves its loop, or the Quit method
\* of the DBus service
SetQuit(by) ==
    /\ Alive /\ ~quit_event /\ readers[by] = "idle"
    /\ by = "service" => service_pc = "serving"
    /\ quit_event' = TRUE
    /\ quit_time' = now
    /\ service_pc' = IF by = "service" THEN "ended" ELSE service_pc
    /\ last_call' = Did("quit")
    /\ UNCHANGED <<now, host_names, age, last_heartbeat, thread_pc, thread_sent, dvars,
                   svars, host_names_lock, section, pending, readers, seen, socks>>
    /\ UNCHANGED kvars

\* SessionManager.__init__ in the proxy thread
SocksStart ==
    /\ Alive /\ socks.pc = "init"
    /\ socks' = [socks EXCEPT !.pc = "top"]
    /\ last_call' = Did("SessionManager")
    /\ UNCHANGED <<now, tvars, dvars, svars, host_names_lock, section, pending, readers,
                   seen, service_pc, quit_time>>
    /\ UNCHANGED kvars

\* the top of the loop of SessionManager.run: close_all and break when the
\* quit event is set, poll otherwise
SocksTop ==
    /\ Alive /\ socks.pc = "top"
    /\ socks' = IF quit_event
                THEN [socks EXCEPT !.pc = "closed", !.closed = socks.fds \cup {"server"}]
                ELSE [socks EXCEPT !.pc = "poll", !.deadline = now + SOCKS_POLL]
    /\ last_call' = Did("run")
    /\ UNCHANGED <<now, tvars, dvars, svars, host_names_lock, section, pending, readers,
                   seen, service_pc, quit_time>>
    /\ UNCHANGED kvars

\* the poll of SessionManager.run returns: with nothing after its timeout,
\* with a connection, with a request that names a host, with a hang-up
SocksPoll(event) ==
    /\ Alive /\ socks.pc = "poll"
    /\ event = "timeout" => now = socks.deadline
    /\ event \in {"request", "hangup"} => "client" \in socks.fds
    /\ socks' = IF event = "accept"
                THEN [socks EXCEPT !.pc = "top", !.fds = @ \cup {"client"}]
                ELSE IF event = "request"
                THEN [socks EXCEPT !.pc = "resolve"]
                ELSE IF event = "hangup"
                THEN [socks EXCEPT !.pc = "top", !.fds = @ \ {"client"}]
                ELSE [socks EXCEPT !.pc = "top"]
    /\ last_call' = Did("poll")
    /\ UNCHANGED <<now, tvars, dvars, svars, host_names_lock, section, pending, readers,
                   seen, service_pc, quit_time>>
    /\ UNCHANGED kvars

\* what arrives at the socket of protocol_handler: nothing, or one datagram
\* of the given ones from one of the hosts
EventsOf(datagrams) ==
    {<< >>} \cup {<<[raw |-> raw, sender |-> sender]>> : raw \in datagrams, sender \in IPs}

\* the threads that read host_names, beside protocol_handler: two hosts
\* that announce the same name
NextLocked ==
    \/ ThreadStart
    \/ LoopTop
    \/ \E d \in Delays, events \in EventsOf({serialize(NameA)}) : LoopPoll(d, events)
    \/ UpdateLock
    \/ UpdateDelete
    \/ UpdateInsert
    \/ SweepLock
    \/ SweepPop
    \/ SweepUnlock
    \/ ThreadReturn
    \/ \E r \in Readers : ReaderLock(r)
    \/ \E r \in Readers : ReaderRead(r)
    \/ \E r \in Readers : ReaderUnlock(r)
    \/ \E os \in {"ok", "OSError"} : ServiceBind(os)
    \/ SocksStart
    \/ SocksTop
    \/ \E event \in {"accept", "request"} : SocksPoll(event)

SpecLocked == Init /\ [][NextLocked]_vars

\* the threads that end with the quit event: protocol_handler and the SOCKS
\* session manager, and the threads that set it
NextQuit ==
    \/ ThreadStart
    \/ LoopTop
    \/ \E d \in Delays,
          events \in EventsOf({serialize(NameA), send_message(ConflictMessage)}) :
          LoopPoll(d, events)
    \/ UpdateLock
    \/ UpdateDelete
    \/ UpdateInsert
    \/ SweepLock
    \/ SweepPop
    \/ SweepUnlock
    \/ ThreadReturn
    \/ \E os \in {"ok", "OSError"} : ServiceBind(os)
    \/ \E by \in {"service", "dbus"} : SetQuit(by)
    \/ SocksStart
    \/ SocksTop
    \/ \E event \in {"timeout", "accept", "hangup"} : SocksPoll(event)

SpecQuit == Init /\ [][NextQuit]_vars

\* ------------------------------------------------------------------------
\* Properties of the announce engine
\* ------------------------------------------------------------------------
\* the hostnames the peer map mentions
AllNames == (DOMAIN host_to_ips) \cup {ip_to_host[ip] : ip \in DOMAIN ip_to_host}

Age(ip) == now - peer_last_announce_time[ip]

\* no peer of the map is older than ANNOUNCE_TTL
NoStalePeers ==
    \A ip \in DOMAIN ip_to_host :
        ip \in DOMAIN peer_last_announce_time /\ Age(ip) <= ANNOUNCE_TTL

\* neither query shows ip
Gone(ip) ==
    /\ query_ip(Engine, ip) = "None"
    /\ \A n \in AllNames : ip \notin query_host(Engine, n)

\* C1: ip_to_host and host_to_ips are inverses of each other: ip_to_host[ip]
\* is name exactly when ip is in host_to_ips[name], so the sets of two names
\* never share an ip.
C1_Inverse ==
    /\ \A ip \in IPs, name \in AllNames :
           (ip \in DOMAIN ip_to_host /\ ip_to_host[ip] = name)
               <=> ip \in Get(host_to_ips, name, {})
    /\ \A n1, n2 \in DOMAIN host_to_ips :
           n1 # n2 => host_to_ips[n1] \cap host_to_ips[n2] = {}

\* a sweep has just dropped a peer, another peer is mapped, and a name was
\* left with an empty set
C1_Witness ==
    /\ last_call.dropped # {}
    /\ DOMAIN ip_to_host # {}
    /\ \E n \in DOMAIN host_to_ips : host_to_ips[n] = {}

\* C2 as claimed: after every tick, due or throttled, no peer of the map is
\* older than ANNOUNCE_TTL.
C2_NoStaleAfterAnyTick == last_call.ticked => NoStalePeers

\* C2 as amended: after every tick on which the heartbeat was due, no peer
\* of the map is older than ANNOUNCE_TTL.
C2_NoStaleAfterDueTick == (last_call.ticked /\ last_call.due) => NoStalePeers

\* a due tick has dropped a peer and kept another
C2_Witness ==
    /\ last_call.ticked /\ last_call.due
    /\ last_call.dropped # {}
    /\ DOMAIN ip_to_host # {}

\* after a tick of the running loop, every peer the queries show announced
\* less than ANNOUNCE_TTL + ANNOUNCE_ALARM seconds ago
C3_State ==
    (pc = "running" /\ last_call.ticked) =>
        \A ip \in IPs :
            ~Gone(ip) => /\ ip \in DOMAIN peer_last_announce_time
                         /\ Age(ip) < ANNOUNCE_TTL + ANNOUNCE_ALARM

\* a peer the queries show until a poll returns announced at most
\* ANNOUNCE_TTL + ANNOUNCE_ALARM seconds before that return, and a peer that
\* is gone comes back only in a poll that delivers a datagram of it
C3_Step ==
    \A ip \in IPs :
        /\ (~Gone(ip) /\ pc = "running" /\ pc' = "running") =>
               /\ ip \in DOMAIN peer_last_announce_time
               /\ now' - peer_last_announce_time[ip] <= ANNOUNCE_TTL + ANNOUNCE_ALARM
        /\ (Gone(ip) /\ ~Gone(ip)') =>
               (last_call'.op = "net" /\ last_call'.ip = ip)

\* C3: while the daemon loops poll(get_time_until_next_announce()), a peer
\* that stops announcing is gone from query_host and query_ip no later than
\* ANNOUNCE_TTL + ANNOUNCE_ALARM seconds after its last Announce, and stays
\* gone until a datagram of it arrives.
C3_EvictedInTime == [](C3_State) /\ [][C3_Step]_vars

\* a sweep has just dropped a peer that had reached the deadline
C3_Witness ==
    /\ last_call.dropped # {}
    /\ \A ip \in last_call.dropped : Gone(ip)
    /\ last_call.op = "timeout"

\* C4 as claimed: a valid Announce of the name new from a peer mapped to
\* another name leaves the peer mapped to new, in the set of new and out of
\* the set of its old name, and leaves the other peers as they were.
C4_Rename ==
    [][\A new \in Names :
          (/\ last_call'.op = "net"
           /\ last_call'.data = Digest(serialize(new))
           /\ last_call'.ip \in DOMAIN ip_to_host
           /\ ip_to_host[last_call'.ip] # new)
          => /\ last_call'.exc = "none"
             /\ query_ip(Engine', last_call'.ip) = new
             /\ last_call'.ip \in query_host(Engine', new)
             /\ last_call'.ip \notin query_host(Engine', ip_to_host[last_call'.ip])
             /\ \A other \in IPs \ ({last_call'.ip} \cup last_call'.dropped) :
                    query_ip(Engine', other) = query_ip(Engine, other)]_vars

\* C5 as claimed: name collisions are tolerated.  A valid Announce of a name
\* leaves its sender among the ips of that name, and removes none of the
\* other ips that have the name (unless the sweep dropped them for age).
C5_CollisionsTolerated ==
    [][\A name \in Names :
          (/\ last_call'.op = "recv"
           /\ last_call'.data = Digest(serialize(name)))
          => /\ last_call'.ip \in owners(host_names', name)
             /\ \A other \in owners(host_names, name) \ last_call'.dropped :
                    other \in owners(host_names', name)]_vars

\* C6: two consecutive broadcasts are at least ANNOUNCE_ALARM apart.
C6_Throttle == Len(sent) = 2 => sent[2] - sent[1] >= ANNOUNCE_ALARM

\* the daemon's own broadcast came back after its second broadcast, and the
\* tick that followed was throttled
C6_Witness ==
    /\ Len(sent) = 2
    /\ last_call.op = "net" /\ last_call.data = Digest(serialize(Hostname))
    /\ last_call.ticked /\ ~last_call.due

\* the poll timeout is in [0, ANNOUNCE_ALARM]
C7_Range == PollTimeoutValue \in 0..ANNOUNCE_ALARM

\* a tick leaves less than ANNOUNCE_ALARM since the last attempt
C7_Attempt == last_call.ticked => now - last_announce_time < ANNOUNCE_ALARM

ValidHostname(b) ==
    /\ Len(b) >= 1 /\ Len(b) <= PACKET_SIZE - 1
    /\ \A i \in 1..Len(b) : b[i] >= 33 /\ b[i] <= 126

NotAnAnnounce(dg) ==
    dg.len = PACKET_SIZE /\ (dg.header # HEADER \/ ~ValidHostname(dg.field))

\* C8 as claimed: a 512-byte datagram that is not a valid Announce makes
\* on_message return normally, is consumed from the buffer of its sender and
\* leaves the peer map and the timestamps as they were; the loop goes on.
C8_MalformedDropped ==
    [][(last_call'.op = "net" /\ NotAnAnnounce(last_call'.data))
          => /\ last_call'.exc = "none"
             /\ pc' = "running"
             /\ last_call'.ip \in DOMAIN peer_buffers' =>
                    Len(peer_buffers'[last_call'.ip])
                        = Len(Get(peer_buffers, last_call'.ip, << >>))
             /\ \A ip \in IPs \ last_call'.dropped :
                    /\ query_ip(Engine', ip) = query_ip(Engine, ip)
                    /\ (ip \in DOMAIN peer_last_announce_time =>
                            /\ ip \in DOMAIN peer_last_announce_time'
                            /\ peer_last_announce_time'[ip] = peer_last_announce_time[ip])
             /\ \A n \in Names :
                    query_host(Engine', n) = query_host(Engine, n) \ last_call'.dropped]_vars

\* after a broadcast that failed: no exception, the timestamp set, the sweep
\* done, the socket open and bound
C9_State ==
    last_call.send = "OSError" =>
        /\ last_call.exc = "none"
        /\ pc = "running"
        /\ last_announce_time = now
        /\ NoStalePeers
        /\ server_sock = "open"
        /\ Get(callbacks, <<"udp", "READABLE">>, "-") = "on_message"

\* the next tick that is due and whose send succeeds broadcasts
C9_Retry ==
    (last_call.send = "OSError" /\ last_call'.send = "ok") =>
        (Len(sent') >= 1 /\ sent'[Len(sent')] = now')

\* C9: when the broadcast raises an OSError, on_announce_timeout does not
\* raise, has set last_announce_time to the current time, has done its sweep
\* and left the socket open and bound; a later tick sends again.
C9_SendFailure == [](C9_State) /\ [][C9_Retry]_vars

\* the broadcast failed on a tick whose sweep dropped a peer
C9_Witness ==
    /\ last_call.send = "OSError"
    /\ last_call.dropped # {}

\* ------------------------------------------------------------------------
\* Properties of the control engine
\* ------------------------------------------------------------------------
\* the elements of a list
Elems(l) == {l[i] : i \in DOMAIN l}

C11_IPReply ==
    [][(last_call'.op = "control" /\ last_call'.msg.type = "ip")
          => IF Len(last_call'.msg.ip_addrs) = 1
             THEN replies' = <<Host(query_ip(Engine, last_call'.msg.ip_addrs[1]))>>
             ELSE /\ replies' = << >>
                  /\ pc' = "running"
                  /\ ip_to_host' = ip_to_host
                  /\ host_to_ips' = host_to_ips]_vars

\* ------------------------------------------------------------------------
\* C12: a GetAll request is answered by exactly one NameIPMapping whose
\* keys are exactly the hostnames that have at least one live ip.
\* ------------------------------------------------------------------------
C12_GetAll ==
    [][(last_call'.op = "control" /\ last_call'.msg.type = "get-all")
          => /\ Len(replies') = 1
             /\ replies'[1].type = "nameipmapping"
             /\ DOMAIN replies'[1].name_ips =
                    {h \in DOMAIN host_to_ips : host_to_ips[h] # {}}]_vars

\* whether handle_message builds a reply to the request
Replying(m) ==
    m.type \in {"name", "get-all"} \/ (m.type = "ip" /\ Len(m.ip_addrs) = 1)

\* the requests among the dispatched that are replied to
RepliedTo(dispatched) == SelectSeq(dispatched, Replying)

\* ------------------------------------------------------------------------
\* C13: a Quit request gets no reply and makes is_running() false by the
\* end of the poll in which it is read, whatever follows it in that read;
\* done, once set, is never reset.
\* ------------------------------------------------------------------------
C13_State ==
    (last_call.op = "recv" /\ Quit \in Elems(last_call.msg.dispatched))
        => /\ done
           /\ Len(replies) <= Len(RepliedTo(last_call.msg.dispatched))

C13_Step == done => done'

RECURSIVE CompleteEnd(_, _)
CompleteEnd(B, pos) ==
    IF Len(B) - pos >= 2
    THEN IF Len(B) - pos - 2 >= unpack_H(SubSeq(B, pos + 1, pos + 2))
         THEN CompleteEnd(B, pos + 2 + unpack_H(SubSeq(B, pos + 1, pos + 2)))
         ELSE pos
    ELSE pos

\* The requests in the complete frames of a buffer of well-formed requests,
\* from pos on, in order
RECURSIVE RequestsIn(_, _)
RequestsIn(B, pos) ==
    IF CompleteEnd(B, pos) = pos THEN << >>
    ELSE LET length == unpack_H(SubSeq(B, pos + 1, pos + 2))
             data == json_loads(SubSeq(B, pos + 3, pos + 2 + length)).data
         IN <<message_unserialize(data.type, data).message>>
            \o RequestsIn(B, pos + 2 + length)

\* What the control engine has of a client once on_message_recv has
\* appended the bytes of the read that last_call' tells of
Buffered ==
    client_buffers[last_call'.ip]
        \o SubSeq(wire[last_call'.ip], 1, last_call'.msg.received)

\* the type of the reply to a request
ReplyType(m) ==
    IF m.type = "name" THEN "ip"
    ELSE IF m.type = "ip" THEN "name"
    ELSE "nameipmapping"

\* ------------------------------------------------------------------------
\* C14: the replies do not depend on how the stream is cut into reads, down
\* to one byte a read: a read replies once to each replying request whose
\* last byte it has brought, to nothing else, and the bytes of a frame that
\* is not complete yet stay in the client's buffer unchanged.
\* ------------------------------------------------------------------------
C14_Chunking ==
    [][(last_call'.op = "recv" /\ last_call'.msg.received > 0)
          => /\ last_call'.ip \in DOMAIN client_buffers'
             /\ client_buffers'[last_call'.ip] =
                    Slice(Buffered, CompleteEnd(Buffered, 0))
             /\ Len(replies') = Len(RepliedTo(RequestsIn(Buffered, 0)))]_vars

\* ------------------------------------------------------------------------
\* C15: the requests of one connection are dispatched in the order they
\* were received, each exactly once, and replied to in that order; no
\* dispatched frame is left in the buffer for a later read to dispatch again.
\* ------------------------------------------------------------------------
C15_InOrder ==
    [][(last_call'.op = "recv" /\ last_call'.msg.received > 0)
          => /\ last_call'.msg.dispatched = RequestsIn(Buffered, 0)
             /\ Len(replies') = Len(RepliedTo(last_call'.msg.dispatched))
             /\ \A i \in 1..Len(replies') :
                   replies'[i].type = ReplyType(RepliedTo(last_call'.msg.dispatched)[i])
             /\ last_call'.ip \in DOMAIN client_buffers'
             /\ CompleteEnd(client_buffers'[last_call'.ip], 0) = 0]_vars

\* The payloads of the complete frames of a buffer, from pos on, in order
RECURSIVE PayloadsIn(_, _)
PayloadsIn(B, pos) ==
    IF CompleteEnd(B, pos) = pos THEN << >>
    ELSE LET length == unpack_H(SubSeq(B, pos + 1, pos + 2))
         IN <<SubSeq(B, pos + 3, pos + 2 + length)>> \o PayloadsIn(B, pos + 2 + length)

\* A payload with a format error: no UTF-8, no JSON text, or a dictionary
\* of unknown type or without a type
FormatError(payload) ==
    \/ ~decodes(payload)
    \/ json_loads(payload).exc # "none"
    \/ /\ ~json_loads(payload).is_none
       /\ get_message_class(json_loads(payload).data).exc # "none"

\* A payload that is a request of a known type which its message class
\* refuses
Refused(payload) == \E data \in InvalidDocuments : payload = json_dumps(data)

\* ------------------------------------------------------------------------
\* C16: a frame with a format error is consumed: pull_messages goes on
\* with what follows it and returns, the client stays connected, and the
\* frame is not left in the buffer to be read again.
\* ------------------------------------------------------------------------
C16_FormatError ==
    [][(/\ last_call'.op = "recv"
        /\ last_call'.msg.received > 0
        /\ \E i \in 1..Len(PayloadsIn(Buffered, 0)) :
              FormatError(PayloadsIn(Buffered, 0)[i]))
          => /\ pc' = "running"
             /\ last_call'.ip \in clients'
             /\ client_buffers'[last_call'.ip] =
                    Slice(Buffered, CompleteEnd(Buffered, 0))]_vars

\* ------------------------------------------------------------------------
\* C17: a well-framed request that its message class refuses (an empty
\* hostname, an address of three octets) makes the control engine close
\* that client, purging its socket, its buffer and its binding; the error
\* does not leave reactor.poll, and the listening socket stays bound.
\* ------------------------------------------------------------------------
C17_Refused ==
    [][(/\ last_call'.op = "recv"
        /\ last_call'.msg.received > 0
        /\ \E i \in 1..Len(PayloadsIn(Buffered, 0)) :
              Refused(PayloadsIn(Buffered, 0)[i]))
          => /\ pc' = "running"
             /\ last_call'.exc = "none"
             /\ last_call'.ip \notin clients'
             /\ last_call'.ip \notin DOMAIN client_buffers'
             /\ <<last_call'.ip, READABLE>> \notin DOMAIN callbacks'
             /\ last_call'.ip \notin DOMAIN fd_events'
             /\ Get(callbacks', <<"ctl", READABLE>>, "EMPTY_CALLBACK") = "on_connect"]_vars

\* ------------------------------------------------------------------------
\* C18-C20: the reactor's registry (SpecReactor)
\* ------------------------------------------------------------------------
\* The pairs (fd, event) that fd_events lists
Listed == {k \in (DOMAIN fd_events) \X Events : k[2] \in fd_events[k[1]]}

\* C18: after any calls of bind and unbind on the poll-style reactor, raised
\* or not, the poller and the registry agree: the descriptors registered with
\* the poller are the keys of fd_events, each with the flags of its event
\* set, no event set is empty, and the keys of callbacks are the pairs
\* fd_events lists.
C18_Agreement ==
    /\ DOMAIN pollster = DOMAIN fd_events
    /\ \A fd \in DOMAIN fd_events :
          /\ fd_events[fd] # {}
          /\ Get(pollster, fd, {}) = event_set_to_flags(fd_events[fd])
    /\ DOMAIN callbacks = Listed

\* The descriptor, the events and the callback of the call just made
BoundFd == last_call'.ip
BoundEvents == last_call'.msg.events
BoundKeys == {<<BoundFd, e>> : e \in BoundEvents}

\* a bind leaves the callbacks of every other event and descriptor as they
\* were, on both reactors, whether it raised or not
KeepsOthers ==
    /\ \A k \in DOMAIN callbacks \ BoundKeys :
          k \in DOMAIN callbacks' /\ callbacks'[k] = callbacks[k]
    /\ \A k \in (Fds \X Events) \ BoundKeys :
          select_lookup(select_reactor', k[1], k[2])
              = select_lookup(select_reactor, k[1], k[2])

\* a bind that returned has stored its callback for each of its events and
\* watches the descriptor for these events besides the ones it had
AddsEvents ==
    /\ \A k \in BoundKeys :
          /\ k \in DOMAIN callbacks' /\ callbacks'[k] = last_call'.msg.callback
          /\ select_lookup(select_reactor', k[1], k[2]) = last_call'.msg.callback
    /\ BoundFd \in DOMAIN fd_events'
    /\ fd_events'[BoundFd] = Get(fd_events, BoundFd, {}) \cup BoundEvents
    /\ Get(pollster', BoundFd, {}) = event_set_to_flags(fd_events'[BoundFd])

\* poll invokes for an event of a descriptor the callback bound for that
\* event
InvokesBound ==
    \A i \in DOMAIN fired' :
        fired'[i][1] # "step" =>
            /\ <<fired'[i][2], fired'[i][3]>> \in DOMAIN callbacks
            /\ callbacks[<<fired'[i][2], fired'[i][3]>>] = fired'[i][1]

C19_Step ==
    /\ last_call'.op = "bind" => KeepsOthers
    /\ last_call'.op = "bind" /\ last_call'.exc = "none" => AddsEvents
    /\ last_call'.op = "poll" => InvokesBound

\* C19: bind is additive: binding an event stores the callback for that event
\* only, the callbacks of the other events of the descriptor stay, the
\* descriptor is watched for the old events and the new, and poll invokes
\* for each event the callback bound for it.
C19_Additive == [][C19_Step]_vars

\* bind(f1, READABLE, cb1), then bind(f1, WRITABLE, cb2) has returned
C19_Witness ==
    /\ last_call.op = "bind" /\ last_call.exc = "none" /\ last_call.ip = "f1"
    /\ last_call.msg = Called("bind", {WRITABLE}, "cb2")
    /\ <<"f1", READABLE>> \in DOMAIN callbacks
    /\ lookup(Reactor, "f1", READABLE) = "cb1"
    /\ lookup(Reactor, "f1", WRITABLE) = "cb2"
    /\ select_lookup(select_reactor, "f1", READABLE) = "cb1"
    /\ select_lookup(select_reactor, "f1", WRITABLE) = "cb2"
    /\ fd_events["f1"] = {READABLE, WRITABLE}
    /\ pollster["f1"] = event_set_to_flags({READABLE, WRITABLE})

\* an unbind without events that returned has left the descriptor without
\* callbacks for the events it had, and out of the poller
UnbindsAll ==
    /\ BoundFd \notin DOMAIN fd_events'
    /\ BoundFd \notin DOMAIN pollster'
    /\ \A e \in Get(fd_events, BoundFd, {}) : <<BoundFd, e>> \notin DOMAIN callbacks'

\* within a batch, no callback of f2 is invoked after a callback has unbound
\* f2
NoneAfterUnbind ==
    \A i \in DOMAIN fired' :
        fired'[i][2] = "f2" => \A j \in 1..(i - 1) : fired'[j][1] # "unbind_f2"

\* poll raises only what a callback raised
RaisedByCallback ==
    last_call'.exc # "none" =>
        /\ Len(fired') > 0
        /\ fired'[Len(fired')][1] = "unbind_f2"

\* the events of the batch that are still bound have had their callbacks
\* invoked, and the step callbacks have run last
RestRuns ==
    last_call'.exc = "none" =>
        /\ step_callbacks # {} =>
              Len(fired') > 0 /\ fired'[Len(fired')] = <<"step", "-", "-">>
        /\ \A n \in DOMAIN BoundEvents :
              \A e \in flags_to_event_set(BoundEvents[n][2]) :
                  <<BoundEvents[n][1], e>> \in DOMAIN callbacks' =>
                      \E i \in DOMAIN fired' :
                          fired'[i] = <<callbacks'[<<BoundEvents[n][1], e>>],
                                        BoundEvents[n][1], e>>

C20_Step ==
    /\ (/\ last_call'.op = "unbind"
        /\ last_call'.msg.events = NoEvents
        /\ last_call'.exc = "none") => UnbindsAll
    /\ last_call'.op = "poll" =>
          InvokesBound /\ NoneAfterUnbind /\ RaisedByCallback /\ RestRuns

\* C20: after unbind(fd) without events no callback of fd is invoked until
\* fd is bound again, also within one batch of poll: an event of a
\* descriptor that an earlier callback of the batch has unbound goes to the
\* default that does nothing, poll does not raise for it, and the other
\* events and the step callbacks run.
C20_Unbound == [][C20_Step]_vars

\* ------------------------------------------------------------------------
\* A program that takes transactions on a stream, one at a time
\* ------------------------------------------------------------------------
\* The longest contents and the farthest position of a stream
MaxStream == 2

\* What the stream holds at first, and what the program writes
Contents == {<< >>, <<97>>, <<97, 97>>}

Written == {<<98>>}

InitTxn ==
    /\ Idle
    /\ \E b \in Contents : \E pos \in 0..Len(b) : parent = seek(BytesIO(b), pos)
    /\ txn = NoTxn
    /\ Untried

\* with stream.get_transaction() as txn
TxnEnter ==
    /\ txn.state = "none"
    /\ txn' = get_transaction(parent)
    /\ last_call' = Did("get_transaction")
    /\ UNCHANGED <<now, dvars, tvars, lvars, parent, subject, outcome>>
    /\ UNCHANGED kvars

\* txn.get_stream().read(n)
TxnRead(n) ==
    /\ txn.state # "none"
    /\ txn' = [txn EXCEPT !.stream = read(@, n).stream]
    /\ last_call' = Did("read")
    /\ UNCHANGED <<now, dvars, tvars, lvars, parent, subject, outcome>>
    /\ UNCHANGED kvars

\* txn.get_stream().seek(pos)
TxnSeek(pos) ==
    /\ txn.state # "none"
    /\ txn' = [txn EXCEPT !.stream = seek(@, pos)]
    /\ last_call' = Did("seek")
    /\ UNCHANGED <<now, dvars, tvars, lvars, parent, subject, outcome>>
    /\ UNCHANGED kvars

\* txn.get_stream().write(b)
TxnWrite(b) ==
    /\ txn.state # "none"
    /\ tell(txn.stream) + Len(b) <= MaxStream
    /\ txn' = [txn EXCEPT !.stream = write(@, b)]
    /\ last_call' = Did("write")
    /\ UNCHANGED <<now, dvars, tvars, lvars, parent, subject, outcome>>
    /\ UNCHANGED kvars

\* txn.get_stream().truncate(size)
TxnTruncate(size) ==
    /\ txn.state # "none"
    /\ txn' = [txn EXCEPT !.stream = truncate(@, size)]
    /\ last_call' = Did("truncate")
    /\ UNCHANGED <<now, dvars, tvars, lvars, parent, subject, outcome>>
    /\ UNCHANGED kvars

\* txn.commit(), by a program that commits a transaction once and does not
\* commit one it has aborted
TxnCommit ==
    /\ txn.state = "open"
    /\ parent' = commit(txn, parent)
    /\ txn' = [txn EXCEPT !.state = "committed"]
    /\ last_call' = Did("commit")
    /\ UNCHANGED <<now, dvars, tvars, lvars, subject, outcome>>
    /\ UNCHANGED kvars

\* txn.abort()
TxnAbort ==
    /\ txn.state = "open"
    /\ parent' = abort(txn, parent)
    /\ txn' = [txn EXCEPT !.state = "aborted"]
    /\ last_call' = Did("abort")
    /\ UNCHANGED <<now, dvars, tvars, lvars, subject, outcome>>
    /\ UNCHANGED kvars

\* leaving the with-block: __exit__ calls abort
TxnExit ==
    /\ txn.state # "none"
    /\ parent' = abort(txn, parent)
    /\ txn' = NoTxn
    /\ last_call' = Did("__exit__")
    /\ UNCHANGED <<now, dvars, tvars, lvars, subject, outcome>>
    /\ UNCHANGED kvars

NextTxn ==
    \/ TxnEnter
    \/ \E n \in 1..2 : TxnRead(n)
    \/ \E pos \in 0..MaxStream : TxnSeek(pos)
    \/ \E b \in Written : TxnWrite(b)
    \/ \E size \in 0..1 : TxnTruncate(size)
    \/ TxnCommit
    \/ TxnAbort
    \/ TxnExit

SpecTxn == InitTxn /\ [][NextTxn]_vars

\* ------------------------------------------------------------------------
\* A program that hands a message to a codec and the bytes back to it, as
\* the roundtrip methods of test_proto.py do
\* ------------------------------------------------------------------------
\* The messages handed to the codecs, beside a Host without a hostname
Subjects ==
    {Announce(h) : h \in Hostnames}
    \cup {Host(h) : h \in Hostnames}
    \cup {IP(l) : l \in AddressLists}
    \cup {IP([i \in 1..ManyAddresses |-> ip_text("10.0.0.1")])}
    \cup {NameIPMapping(d) : d \in Mappings}
    \cup {GetAll, Quit}

InitCodec ==
    /\ Idle
    /\ parent = BytesIO(<< >>)
    /\ txn = NoTxn
    /\ subject \in Subjects \/ subject = Host("None")
    /\ outcome = NoOutcome

\* output = message.serialize(), of an Announce
AnnounceSerialize ==
    /\ subject.type = "announce"
    /\ outcome.stage = "none"
    /\ \E exc \in {Announce_serialize(subject.hostname)} :
          outcome' = [NoOutcome EXCEPT
                         !.stage = "serialized",
                         !.exc = exc,
                         !.data = IF exc = "none" THEN serialize(subject.hostname)
                                  ELSE << >>]
    /\ last_call' = Did("serialize")
    /\ UNCHANGED <<now, dvars, tvars, lvars, parent, txn, subject>>
    /\ UNCHANGED kvars

\* output_message = net_proto.Announce.unserialize(output)
AnnounceUnserialize ==
    /\ subject.type = "announce"
    /\ outcome.stage = "serialized"
    /\ outcome.exc = "none"
    /\ \E r \in {unserialize(outcome.data)} :
          outcome' = [outcome EXCEPT
                         !.stage = "unserialized",
                         !.exc = IF r.ok THEN "none" ELSE "ValueError",
                         !.message = IF r.ok THEN Announce(r.hostname) ELSE NoMessage]
    /\ last_call' = Did("unserialize")
    /\ UNCHANGED <<now, dvars, tvars, lvars, parent, txn, subject>>
    /\ UNCHANGED kvars

\* output = message.serialize(), of a control message
ControlSerialize ==
    /\ subject.type \in MessageTypes
    /\ outcome.stage = "none"
    /\ \E exc \in {message_serialize(subject)} :
          outcome' = [NoOutcome EXCEPT
                         !.stage = "serialized",
                         !.exc = exc,
                         !.data = IF exc = "none" THEN length_encode_json(subject)
                                  ELSE << >>]
    /\ last_call' = Did("serialize")
    /\ UNCHANGED <<now, dvars, tvars, lvars, parent, txn, subject>>
    /\ UNCHANGED kvars

\* json = get_length_encoded_json(io.BytesIO(output)), message_class =
\* get_message_class(json), output_message = message_class.unserialize(json)
ControlUnserialize ==
    /\ subject.type \in MessageTypes
    /\ outcome.stage = "serialized"
    /\ outcome.exc = "none"
    /\ \E json \in {get_length_encoded_json(outcome.data, 0)} :
          IF json.exc # "none" \/ json.is_none
          THEN outcome' = [outcome EXCEPT
                              !.stage = "unserialized",
                              !.exc = IF json.is_none THEN "TypeError" ELSE json.exc,
                              !.pos = json.pos]
          ELSE \E message_class \in {get_message_class(json.data)} :
                  IF message_class.exc # "none"
                  THEN outcome' = [outcome EXCEPT
                                      !.stage = "unserialized",
                                      !.exc = message_class.exc,
                                      !.pos = json.pos]
                  ELSE \E output_message \in
                              {message_unserialize(message_class.class, json.data)} :
                          outcome' = [outcome EXCEPT
                                         !.stage = "unserialized",
                                         !.exc = output_message.exc,
                                         !.pos = json.pos,
                                         !.class = message_class.class,
                                         !.message = output_message.message]
    /\ last_call' = Did("unserialize")
    /\ UNCHANGED <<now, dvars, tvars, lvars, parent, txn, subject>>
    /\ UNCHANGED kvars

NextCodec ==
    \/ AnnounceSerialize
    \/ AnnounceUnserialize
    \/ ControlSerialize
    \/ ControlUnserialize

SpecCodec == InitCodec /\ [][NextCodec]_vars

\* ------------------------------------------------------------------------
\* C21-C23: poll on both reactors (SpecPoll)
\* ------------------------------------------------------------------------
\* the place of an event in the order of dispatch
Rank(event) == IF event = READABLE THEN 1 ELSE IF event = WRITABLE THEN 2 ELSE 3

\* the batch reports the event ready on the descriptor
Reported(batch, fd, event) ==
    \E n \in DOMAIN batch :
        batch[n][1] = fd /\ event \in flags_to_event_set(batch[n][2])

\* the entries of a log that are event callbacks
EventEntries(log) == {i \in DOMAIN log : log[i][2] # "-"}

\* a log of one poll: every callback invoked was reported ready, the events
\* of one descriptor come READABLE, WRITABLE, ERROR (hence none twice), and
\* each callback of bound, the triples (fd, event, callback) bound when the
\* poll returns, whose event was reported is in the log once
DispatchedRight(log, batch, bound) ==
    /\ \A i \in EventEntries(log) : Reported(batch, log[i][2], log[i][3])
    /\ \A i, j \in EventEntries(log) :
          i < j /\ log[i][2] = log[j][2] => Rank(log[i][3]) < Rank(log[j][3])
    /\ \A t \in bound :
          Reported(batch, t[1], t[2]) =>
              Cardinality({i \in DOMAIN log : log[i] = <<t[3], t[1], t[2]>>}) = 1

\* the triples bound on the poll-style reactor
BoundTriples(cbs) == {<<k[1], k[2], cbs[k]>> : k \in DOMAIN cbs}

\* the triples bound on the select-style reactor
SelectTriples(S) ==
    {t \in Fds \X Events \X UserCallbacks : select_lookup(S, t[1], t[2]) = t[3]}

C21_Step ==
    last_call'.op = "poll" =>
        /\ last_call'.exc = "none" =>
              /\ DispatchedRight(fired', last_call'.msg.events, BoundTriples(callbacks'))
              /\ \A i \in EventEntries(fired') :
                    fired'[i][1] = lookup(Reactor, fired'[i][2], fired'[i][3])
        /\ select_call'.exc = "none" =>
              /\ DispatchedRight(select_call'.fired, last_call'.msg.events,
                                 SelectTriples(select_reactor'))
              /\ \A i \in EventEntries(select_call'.fired) :
                    select_call'.fired[i][1]
                        = select_lookup(select_reactor, select_call'.fired[i][2],
                                        select_call'.fired[i][3])

StepsRun(log, steps) ==
    /\ \A c \in steps :
          Cardinality({i \in DOMAIN log : log[i] = <<c, "-", "-">>}) = 1
    /\ \A i \in DOMAIN log : log[i][2] = "-" => log[i][1] \in steps
    /\ \A i \in DOMAIN log \ EventEntries(log) : \A j \in EventEntries(log) : j < i

C22_Step ==
    last_call'.op = "poll" =>
        /\ last_call'.exc = "none" => StepsRun(fired', step_callbacks)
        /\ select_call'.exc = "none" => StepsRun(select_call'.fired, step_callbacks)

C23_Step ==
    last_call'.op \in {"bind", "unbind", "add_step_callback", "poll"} =>
        /\ last_call'.exc = select_call'.exc
        /\ fired' = select_call'.fired
        /\ has_clients(Reactor') <=> select_has_clients(select_reactor')

\* C23: given the same calls and the same readiness the poll-style and the
\* select-style reactor invoke the same callbacks, answer has_clients alike
\* and end each call alike, normally or with an exception.
C23_Interchangeable == [][C23_Step]_vars

\* ------------------------------------------------------------------------
\* C24-C25: transactions on a stream (SpecTxn)
\* ------------------------------------------------------------------------
\* the parent is as it was when the transaction was taken
AsTaken(P, T) == getvalue(P) = T.buffer /\ tell(P) = T.position

C24_State == txn.state \in {"open", "aborted"} => AsTaken(parent, txn)

C24_Step ==
    (last_call'.op = "__exit__" /\ txn.state # "committed") => AsTaken(parent', txn)

\* C24: whatever was read, sought and written on the stream of a
\* transaction, when the transaction is aborted, by abort or by leaving the
\* with-block without commit, the contents and the position of the parent are
\* those it had when the transaction was taken.
C24_Aborted == [](C24_State) /\ [][C24_Step]_vars

\* an aborted transaction whose stream was written and moved, on a parent
\* that is not at its start
C24_Witness ==
    /\ txn.state = "aborted"
    /\ getvalue(txn.stream) # txn.buffer
    /\ tell(txn.stream) # txn.position
    /\ tell(parent) > 0

C25_Step ==
    last_call'.op = "commit" =>
        /\ getvalue(parent') = getvalue(txn.stream)
        /\ tell(parent') = tell(txn.stream)

\* C25: after commit the contents and the position of the parent are those
\* of the stream of the transaction, whether the contents changed, stayed,
\* shrank or grew.
C25_Committed == [][C25_Step]_vars

\* a commit that moved the position only
C25_Witness ==
    /\ last_call.op = "commit"
    /\ txn.state = "committed"
    /\ getvalue(parent) = txn.buffer
    /\ tell(parent) # txn.position
    /\ tell(parent) = tell(txn.stream)

\* ------------------------------------------------------------------------
\* C26-C28: the codecs (SpecCodec)
\* ------------------------------------------------------------------------
\* C26: for every valid hostname of 1 to 511 characters, serializing an
\* Announce returns 512 bytes, 0x01, the hostname and NULs after it, and
\* unserializing those bytes returns an Announce equal to the first
C26_RoundTrip ==
    (subject.type = "announce" /\ ValidHostname(subject.hostname)) =>
        /\ outcome.stage # "none" =>
              /\ Len(outcome.data) = PACKET_SIZE
              /\ outcome.data[1] = HEADER
              /\ SubSeq(outcome.data, 2, Len(subject.hostname) + 1) = subject.hostname
              /\ \A i \in (Len(subject.hostname) + 2)..PACKET_SIZE : outcome.data[i] = 0
        /\ outcome.stage = "unserialized" =>
              /\ outcome.exc = "none"
              /\ outcome.message = subject

\* a valid address: four dotted octets, each a number from 0 to 255
ValidAddresses(ip_addrs) ==
    \A i \in 1..Len(ip_addrs) : verify_ipv4_address(ip_addrs[i])

\* a valid message of the control protocol
ValidMessage(m) ==
    IF m.type = "name" THEN m.hostname = "None" \/ ValidHostname(m.hostname)
    ELSE IF m.type = "ip" THEN ValidAddresses(m.ip_addrs)
    ELSE IF m.type = "nameipmapping"
    THEN \A h \in DOMAIN m.name_ips :
            ValidHostname(h) /\ ValidAddresses(m.name_ips[h])
    ELSE TRUE

\* the message as unserialize returns it: IP lists its addresses by the
\* names this model gives them
AsReturned(m) ==
    IF m.type = "ip"
    THEN IP([i \in 1..Len(m.ip_addrs) |-> ip_name(m.ip_addrs[i])])
    ELSE m

\* C27: every valid control message is serialized, and from the bytes
\* get_length_encoded_json reads the whole frame, get_message_class returns
\* the class of the message and unserialize a message equal to it
C27_RoundTrip ==
    (subject.type \in MessageTypes /\ ValidMessage(subject)) =>
        /\ outcome.stage # "none" => outcome.data # << >>
        /\ outcome.stage = "unserialized" =>
              /\ outcome.exc = "none"
              /\ outcome.pos = Len(outcome.data)
              /\ outcome.class = subject.type
              /\ outcome.message = AsReturned(subject)

\* C28: serialize raises for an Announce or a Host whose hostname is empty,
\* longer than 511 bytes or holds a byte outside 33..126, and for an IP or
\* a NameIPMapping with an address that is not four octets from 0 to 255
C28_Rejects ==
    outcome.stage = "serialized" =>
        /\ (/\ subject.type \in {"announce", "name"}
            /\ subject.hostname # "None"
            /\ ~ValidHostname(subject.hostname)) => outcome.exc # "none"
        /\ (subject.type = "ip" /\ ~ValidAddresses(subject.ip_addrs)) =>
              outcome.exc # "none"
        /\ (/\ subject.type = "nameipmapping"
            /\ \E h \in DOMAIN subject.name_ips :
                  ~ValidAddresses(subject.name_ips[h])) => outcome.exc # "none"

\* ------------------------------------------------------------------------
\* C29: the lock of host_names (SpecLocked)
\* ------------------------------------------------------------------------
\* the places of protocol_handler inside a with block
Writing == {"del", "insert", "pop"}

\* the thread that holds the lock is inside a with block and can go on to
\* its end
HolderGoesOn ==
    /\ host_names_lock = "announce" =>
          /\ thread_pc = "running"
          /\ ENABLED (UpdateDelete \/ UpdateInsert \/ SweepPop \/ SweepUnlock)
    /\ \A r \in Readers :
          (host_names_lock = r /\ Alive) => ENABLED (ReaderRead(r) \/ ReaderUnlock(r))

C29_State ==
    /\ section \in Writing => host_names_lock = "announce"
    /\ \A r \in Readers : readers[r] # "idle" => host_names_lock = r
    /\ seen.by # "-" => seen.during \notin Writing
    /\ HolderGoesOn

C29_Step ==
    /\ host_names' # host_names => host_names_lock = "announce"
    /\ (seen' # seen /\ seen'.by # "-") => host_names_lock = seen'.by

LoopReturns ==
    quit_event =>
        /\ thread_pc \in {"start", "running", "returned"}
        /\ thread_pc = "running" => now <= quit_time + lnsd_heartbeat

\* the session manager, once the quit event is set, has closed its sessions
\* and its listener when one poll timeout has passed or the process ended
ManagerCloses ==
    (quit_event /\ socks.pc # "init" /\ (~Alive \/ now > quit_time + SOCKS_POLL)) =>
        /\ socks.pc = "closed"
        /\ socks.closed = socks.fds \cup {"server"}

\* C30: once the quit event is set, protocol_handler closes its socket and
\* returns within one heartbeat, and the SOCKS session manager closes its
\* sessions and its listener and leaves its loop within one poll timeout
C30_Terminates == LoopReturns /\ ManagerCloses

\* ------------------------------------------------------------------------
\* The SOCKS proxy (lns/socks/utils.py, session.py, protocol.py)
\* ------------------------------------------------------------------------
\* the commands and the address types of a request
CMD_CONNECT == 1
CMD_BIND == 2
CMD_ASSOCIATE == 3
ADDR_IP4 == 1
ADDR_DOMAIN == 3
ADDR_IP6 == 4

\* the text ".lan"
LAN == <<46, 108, 97, 110>>

\* str.endswith
endswith(text, suffix) ==
    /\ Len(text) >= Len(suffix)
    /\ SubSeq(text, Len(text) - Len(suffix) + 1, Len(text)) = suffix

\* str.replace(old, ''): every occurrence of old is removed, from the left,
\* i being the 1-based place the scan has reached
RECURSIVE replace_from(_, _, _)
replace_from(text, old, i) ==
    IF i > Len(text) THEN << >>
    ELSE IF i + Len(old) - 1 <= Len(text) /\ SubSeq(text, i, i + Len(old) - 1) = old
    THEN replace_from(text, old, i + Len(old))
    ELSE <<text[i]>> \o replace_from(text, old, i + 1)

replace(text, old) == replace_from(text, old, 1)

\* what get_real_address hands to socket.getaddrinfo: the ip of the name in
\* the inverse of host_names, or the address it was given when the look-up
\* raises a KeyError or the address does not end in ".lan"
resolver_argument(address, b) ==
    IF endswith(address, LAN) /\ name_in_inverse(b, replace(address, LAN))
    THEN [ip |-> owner_of(b, replace(address, LAN)), name |-> << >>]
    ELSE [ip |-> "-", name |-> address]

\* get_real_address: the exception it raises, "none" if it returns;
\* getaddrinfo raises a gaierror, or returns a list, which may be empty
get_real_address(address, b, getaddrinfo) ==
    IF getaddrinfo = "gaierror" THEN "gaierror"
    ELSE IF getaddrinfo = "empty" THEN "OSError"
    ELSE "none"

\* str(byte) of a byte: its decimal digits
RECURSIVE str(_)
str(byte) ==
    IF byte < 10 THEN <<48 + byte>>
    ELSE str(byte \div 10) \o <<48 + (byte % 10)>>

\* ip_to_text: sep.join(str(byte) for byte in bytestr)
RECURSIVE ip_to_text(_, _)
ip_to_text(bytestr, sep) ==
    IF Len(bytestr) = 0 THEN << >>
    ELSE IF Len(bytestr) = 1 THEN str(bytestr[1])
    ELSE str(bytestr[1]) \o <<sep>> \o ip_to_text(Tail(bytestr), sep)

\* the classes an exception is an instance of: IOError is OSError, and the
\* socket and connection errors derive from it
Bases(exc) ==
    IF exc \in {"gaierror", "ConnectionRefusedError", "BlockingIOError",
                "BrokenPipeError", "ConnectionResetError", "TimeoutError"}
    THEN {exc, "OSError"}
    ELSE {exc}

\* try ... except: the first clause that names a class of exc, 0 if none
handler_of(exc, clauses) ==
    IF \E i \in 1..Len(clauses) : Bases(exc) \cap clauses[i] # {}
    THEN CHOOSE i \in 1..Len(clauses) :
             /\ Bases(exc) \cap clauses[i] # {}
             /\ \A j \in 1..(i - 1) : Bases(exc) \cap clauses[j] = {}
    ELSE 0

\* the manager's table, the sessions and the sockets as one record
World == [manager_fds |-> manager_fds, sessions |-> sessions, sockets |-> sockets]

\* a socket as accept or socket.socket returns it: unread, the bytes its
\* remote end wrote; eof, whether the remote end has closed; sent, the
\* messages written to it
NewSocket(unread, eof) ==
    [open |-> TRUE, unread |-> unread, eof |-> eof, sent |-> << >>]

\* read_bytes on a non-blocking socket: n bytes, or what there is followed
\* by the BlockingIOError of recv, or by an IOError when the peer has closed
read_bytes(W, fd, n) ==
    IF Len(W.sockets[fd].unread) >= n
    THEN [W |-> [W EXCEPT !.sockets[fd].unread = Slice(@, n)],
          data |-> SubSeq(W.sockets[fd].unread, 1, n),
          exc |-> "none"]
    ELSE [W |-> [W EXCEPT !.sockets[fd].unread = << >>],
          data |-> << >>,
          exc |-> IF W.sockets[fd].eof THEN "OSError" ELSE "BlockingIOError"]

\* socket.send: os is what the system makes of it
sock_send(W, fd, data, os) ==
    IF os = "ok"
    THEN [W |-> [W EXCEPT !.sockets[fd].sent = Append(@, data)], exc |-> "none"]
    ELSE [W |-> W, exc |-> os]

\* SessionManager.start for a protocol object of the given type: the
\* Session, with the fields of the object that owns it
manager_start(W, type, client) ==
    [W EXCEPT !.sessions = Append(@, [type |-> type, client |-> client,
                                     fds |-> EmptyMap, fd_map |-> EmptyMap,
                                     has_authenticated |-> FALSE])]

\* Session.register, with SessionManager.register_socket
Session_register(W, s, fileno, callback) ==
    [W EXCEPT !.manager_fds = Put(@, fileno, s),
              !.sessions[s].fds = Put(@, fileno, callback)]

\* Session.stop: every descriptor of the session is unregistered from the
\* manager and from the session, and closed if close=True
Session_stop(W, s, closing) ==
    [W EXCEPT !.manager_fds = [fd \in (DOMAIN @) \ (DOMAIN W.sessions[s].fds) |-> @[fd]],
              !.sessions[s].fds = EmptyMap,
              !.sockets = [fd \in DOMAIN @ |->
                              IF closing /\ fd \in DOMAIN W.sessions[s].fds
                              THEN [@[fd] EXCEPT !.open = FALSE]
                              ELSE @[fd]]]

\* what a callback or a constructor has done: the world after it, the
\* exception it raised, the session type it constructed and the address
\* that session was asked for
Done(W, exc) == [W |-> W, exc |-> exc, created |-> "-", address |-> << >>]

\* PreSession.__init__
PreSession_init(W, client) ==
    The({Session_register(W1, Len(W1.sessions), client, "_handle_request") :
         W1 \in {manager_start(W, "PreSession", client)}})

\* PreSession._authenticate
_authenticate(W, s, send) ==
    The({IF auth_header.exc # "none" THEN Done(auth_header.W, auth_header.exc)
         ELSE The({IF auth_methods.exc # "none"
                   THEN Done(auth_methods.W, auth_methods.exc)
                   ELSE IF \E i \in 1..Len(auth_methods.data) : auth_methods.data[i] = 0
                   THEN The({IF r.exc # "none" THEN Done(r.W, r.exc)
                             ELSE Done([r.W EXCEPT !.sessions[s].has_authenticated = TRUE],
                                       "none") :
                             r \in {sock_send(auth_methods.W, W.sessions[s].client,
                                              <<5, 0>>, send)}})
                   ELSE The({IF r.exc # "none" THEN Done(r.W, r.exc)
                             ELSE Done(Session_stop(r.W, s, TRUE), "none") :
                             r \in {sock_send(auth_methods.W, W.sessions[s].client,
                                              <<5, 255>>, send)}}) :
                   auth_methods \in {read_bytes(auth_header.W, W.sessions[s].client,
                                                auth_header.data[2])}}) :
         auth_header \in {read_bytes(W, W.sessions[s].client, 2)}})

\* the address of a request, by its type: the text, or the exception of
\* read_bytes, of str(domain_bytes, 'ascii') or of an unknown type.  An
\* IPv6 address is read as 6 bytes
read_address(W, fd, addr_type) ==
    IF addr_type = ADDR_IP4
    THEN The({[W |-> addr.W, exc |-> addr.exc, text |-> ip_to_text(addr.data, 46)] :
              addr \in {read_bytes(W, fd, 4)}})
    ELSE IF addr_type = ADDR_IP6
    THEN The({[W |-> addr.W, exc |-> addr.exc, text |-> ip_to_text(addr.data, 58)] :
              addr \in {read_bytes(W, fd, 6)}})
    ELSE IF addr_type = ADDR_DOMAIN
    THEN The({IF domain_length.exc # "none"
              THEN [W |-> domain_length.W, exc |-> domain_length.exc, text |-> << >>]
              ELSE The({[W |-> domain_bytes.W,
                         exc |-> IF domain_bytes.exc # "none" THEN domain_bytes.exc
                                 ELSE IF \E i \in 1..Len(domain_bytes.data) :
                                            domain_bytes.data[i] > 127
                                 THEN "UnicodeDecodeError"
                                 ELSE "none",
                         text |-> domain_bytes.data] :
                        domain_bytes \in {read_bytes(domain_length.W, fd,
                                                     domain_length.data[1])}}) :
              domain_length \in {read_bytes(W, fd, 1)}})
    ELSE [W |-> W, exc |-> "OSError", text |-> << >>]

\* the address the proxy's own sockets are bound to, as getsockname and
\* inet_pton give it
SockAddr == <<10, 0, 0, 9>>
SockPort == 1080

\* struct.pack('!H', port)
pack_net_H(port) == <<port \div 256, port % 256>>

\* send_sock_info: the reply of a request that succeeded
send_sock_info(W, channel, send) ==
    sock_send(W, channel, <<5, 0, 0, ADDR_IP4>> \o SockAddr \o pack_net_H(SockPort), send)

\* ConnectSession._send_host_error
_send_host_error(W, client, send) ==
    sock_send(W, client, <<5, 4, 0, 1, 0, 0, 0, 0, 0, 0>>, send)

\* ConnectSession._send_port_error
_send_port_error(W, client, send) ==
    sock_send(W, client, <<5, 5, 0, 1, 0, 0, 0, 0, 0>>, send)

\* the descriptors of the sockets a session opens for a client
PeerOf(client) == IF client = "c1" THEN "p1" ELSE "p2"

\* the try block of ConnectSession.__init__: the address is resolved, the
\* peer socket made, connected and registered, the reply sent and fd_map
\* set
connect_peer(W, s, client, address, b, getaddrinfo, connect, send) ==
    IF get_real_address(address, b, getaddrinfo) # "none"
    THEN Done(W, get_real_address(address, b, getaddrinfo))
    ELSE IF connect # "ok"
    THEN Done([W EXCEPT !.sockets = Put(@, PeerOf(client), NewSocket(<< >>, FALSE))],
              connect)
    ELSE The({IF r.exc # "none" THEN Done(r.W, r.exc)
              ELSE Done([r.W EXCEPT !.sessions[s].fd_map =
                             [fd \in {client, PeerOf(client)} |->
                                 IF fd = client THEN PeerOf(client) ELSE client]],
                        "none") :
              r \in {send_sock_info(
                         Session_register(
                             [W EXCEPT !.sockets = Put(@, PeerOf(client),
                                                       NewSocket(<< >>, FALSE))],
                             s, PeerOf(client), "_handle_data"),
                         client, send)}})

\* the except clauses of ConnectSession.__init__, in their order
ConnectClauses == <<{"OSError", "gaierror"}, {"ConnectionRefusedError"}>>

\* ConnectSession.__init__
ConnectSession_init(W, client, address, b, getaddrinfo, connect, send) ==
    The({IF t.exc = "none" THEN t
         ELSE IF handler_of(t.exc, ConnectClauses) = 1
         THEN The({IF r.exc # "none" THEN Done(r.W, r.exc)
                   ELSE Done(Session_stop(r.W, Len(r.W.sessions), TRUE), "none") :
                   r \in {_send_host_error(t.W, client, send)}})
         ELSE IF handler_of(t.exc, ConnectClauses) = 2
         THEN The({IF r.exc # "none" THEN Done(r.W, r.exc)
                   ELSE Done(Session_stop(r.W, Len(r.W.sessions), TRUE), "none") :
                   r \in {_send_port_error(t.W, client, send)}})
         ELSE t :
         t \in {connect_peer(Session_register(W1, Len(W1.sessions), client, "_handle_data"),
                             Len(W1.sessions), client, address, b, getaddrinfo, connect,
                             send) :
                W1 \in {manager_start(W, "ConnectSession", client)}}})

\* BindSession.__init__: the listening socket is registered, the client is
\* not
BindSession_init(W, client, send) ==
    The({The({Done(r.W, r.exc) :
             r \in {send_sock_info(
                        Session_register(
                            [W1 EXCEPT !.sockets = Put(@, PeerOf(client),
                                                       NewSocket(<< >>, FALSE))],
                            Len(W1.sessions), PeerOf(client), "_handle_server_connection"),
                        client, send)}}) :
         W1 \in {manager_start(W, "BindSession", client)}})

\* AssociateSession.__init__
AssociateSession_init(W, client, send) ==
    The({The({Done(r.W, r.exc) :
             r \in {send_sock_info(
                        Session_register(
                            Session_register(
                                [W1 EXCEPT !.sockets = Put(@, PeerOf(client),
                                                           NewSocket(<< >>, FALSE))],
                                Len(W1.sessions), client, "_handle_control_data"),
                            Len(W1.sessions), PeerOf(client), "_handle_relay_data"),
                        client, send)}}) :
         W1 \in {manager_start(W, "AssociateSession", client)}})

\* a constructor's outcome as the outcome of _handle_command
Created(r, type, address) == [r EXCEPT !.created = type, !.address = address]

\* the rest of _handle_command once the request is read: the command picks
\* the session type, the PreSession's session is stopped without closing,
\* and the session is constructed
hand_off(W, s, command, text_addr, b, getaddrinfo, connect, send) ==
    IF command = CMD_CONNECT
    THEN Created(ConnectSession_init(Session_stop(W, s, FALSE), W.sessions[s].client,
                                     text_addr, b, getaddrinfo, connect, send),
                 "ConnectSession", text_addr)
    ELSE IF command = CMD_BIND
    THEN Created(BindSession_init(Session_stop(W, s, FALSE), W.sessions[s].client, send),
                 "BindSession", text_addr)
    ELSE IF command = CMD_ASSOCIATE
    THEN Created(AssociateSession_init(Session_stop(W, s, FALSE), W.sessions[s].client,
                                       send),
                 "AssociateSession", text_addr)
    ELSE Done(W, "OSError")

\* PreSession._handle_command
_handle_command(W, s, b, getaddrinfo, connect, send) ==
    The({IF request.exc # "none" THEN Done(request.W, request.exc)
         ELSE The({IF addr.exc # "none" THEN Done(addr.W, addr.exc)
                   ELSE The({IF port.exc # "none" THEN Done(port.W, port.exc)
                             ELSE hand_off(port.W, s, request.data[2], addr.text, b,
                                           getaddrinfo, connect, send) :
                             port \in {read_bytes(addr.W, W.sessions[s].client, 2)}}) :
                   addr \in {read_address(request.W, W.sessions[s].client,
                                          request.data[4])}}) :
         request \in {read_bytes(W, W.sessions[s].client, 4)}})

\* _handle_request taking every message for a command
_handle_request_unauthenticated(W, s, b, getaddrinfo, connect, send) ==
    _handle_command(W, s, b, getaddrinfo, connect, send)

\* PreSession._handle_request
_handle_request(W, s, b, getaddrinfo, connect, send) ==
    IF ~W.sessions[s].has_authenticated
    THEN _authenticate(W, s, send)
    ELSE _handle_command(W, s, b, getaddrinfo, connect, send)

\* ConnectSession._handle_data: a chunk from one end to the other, or the
\* end of the session when recv returns nothing
_handle_data(W, s, fileno, send) ==
    IF fileno \notin DOMAIN W.sessions[s].fd_map THEN Done(W, "AttributeError")
    ELSE IF W.sockets[fileno].unread = << >>
    THEN IF W.sockets[fileno].eof THEN Done(Session_stop(W, s, TRUE), "none")
         ELSE Done(W, "BlockingIOError")
    ELSE The({Done(r.W, r.exc) :
              r \in {sock_send([W EXCEPT !.sockets[fileno].unread = << >>],
                               W.sessions[s].fd_map[fileno],
                               W.sockets[fileno].unread, send)}})

\* AssociateSession._handle_control_data
_handle_control_data(W, s) == Done(Session_stop(W, s, TRUE), "none")

\* Session.handle: the callback registered for the descriptor
Session_handle(W, s, fileno, b, getaddrinfo, connect, send) ==
    IF fileno \notin DOMAIN W.sessions[s].fds THEN Done(W, "AssertionError")
    ELSE IF W.sessions[s].fds[fileno] = "_handle_request"
    THEN _handle_request(W, s, b, getaddrinfo, connect, send)
    ELSE IF W.sessions[s].fds[fileno] = "_handle_data"
    THEN _handle_data(W, s, fileno, send)
    ELSE _handle_control_data(W, s)

\* the except clauses of SessionManager.run, in their order
RunClauses == <<{"OSError", "BrokenPipeError", "ConnectionResetError"}, {"BlockingIOError"}>>

\* the POLLIN part of one event of SessionManager.run: the session's
\* callback, and the session stopped for an exception of the first clause
on_pollin(W, fileno, b, getaddrinfo, connect, send) ==
    The({IF r.exc # "none" /\ handler_of(r.exc, RunClauses) = 1
         THEN [r EXCEPT !.W = Session_stop(r.W, W.manager_fds[fileno], TRUE)]
         ELSE r :
         r \in {Session_handle(W, W.manager_fds[fileno], fileno, b, getaddrinfo,
                               connect, send)}})

\* the POLLHUP part: the session that has the descriptor now is stopped
on_pollhup(W, fileno) ==
    IF fileno \in DOMAIN W.manager_fds
    THEN Session_stop(W, W.manager_fds[fileno], TRUE)
    ELSE W

\* whether an exception leaves SessionManager.run, and ends its thread
Escapes(exc) == exc # "none" /\ handler_of(exc, RunClauses) = 0

\* one event of the poll of SessionManager.run on a client's descriptor
manager_event(W, fileno, flags, b, getaddrinfo, connect, send) ==
    The({IF Escapes(r.exc) \/ "POLLHUP" \notin flags THEN r
         ELSE [r EXCEPT !.W = on_pollhup(r.W, fileno)] :
         r \in {IF "POLLIN" \in flags /\ fileno \in DOMAIN W.manager_fds
                THEN on_pollin(W, fileno, b, getaddrinfo, connect, send)
                ELSE Done(W, "none")}})

SetWorld(W) ==
    /\ manager_fds' = W.manager_fds
    /\ sessions' = W.sessions
    /\ sockets' = W.sockets

\* the callback SessionManager.run is about to call for a descriptor
CallbackOf(fd) ==
    IF sessions[manager_fds[fd]].fds[fd] # "_handle_request"
    THEN sessions[manager_fds[fd]].fds[fd]
    ELSE IF sessions[manager_fds[fd]].has_authenticated THEN "_handle_command"
    ELSE "_authenticate"

\* the clients of the proxy, and what they write: a greeting and a request
Clients == {"c1", "c2"}

Greeting(methods) == <<5, Len(methods)>> \o methods

Request(command, addr_type, addr, port) ==
    <<5, command, 0, addr_type>> \o addr \o pack_net_H(port)

Domain(text) == <<Len(text)>> \o text

\* the hosts a client asks for: "a.lan", "a.lan.lan", "b.lan" and "a"
LanAddresses == {NameA \o LAN, NameA \o LAN \o LAN, NameB \o LAN, NameA}

\* the names the hosts of the network announce: "a" and "a.lan"
LanNameOf(ip) == IF ip = "10.0.0.1" THEN NameA ELSE NameA \o LAN

NoAuth == Greeting(<<0>>)

Scripts ==
    {NoAuth \o Request(CMD_CONNECT, ADDR_DOMAIN, Domain(a), 80) : a \in LanAddresses}
    \cup {NoAuth \o Request(CMD_CONNECT, ADDR_IP4, <<10, 0, 0, 1>>, 80),
          NoAuth \o Request(CMD_CONNECT, ADDR_DOMAIN, Domain(<<200>>), 80),
          NoAuth \o Request(CMD_BIND, ADDR_IP4, <<10, 0, 0, 1>>, 80),
          NoAuth \o Request(CMD_ASSOCIATE, ADDR_IP4, <<0, 0, 0, 0>>, 0),
          NoAuth \o Request(9, ADDR_IP4, <<10, 0, 0, 1>>, 80),
          NoAuth \o Request(CMD_CONNECT, 5, <<10, 0, 0, 1>>, 80),
          NoAuth,
          Greeting(<<2, 0>>),
          Greeting(<<2>>) \o Request(CMD_CONNECT, ADDR_DOMAIN, Domain(NameA \o LAN), 80),
          Greeting(<< >>),
          <<5>>,
          Request(CMD_CONNECT, ADDR_DOMAIN, Domain(NameA \o LAN), 80)}

\* what the second client writes
FewScripts == {NoAuth \o Request(CMD_CONNECT, ADDR_DOMAIN, Domain(NameA \o LAN), 80),
               Greeting(<<2>>)}

\* the server socket is readable: accept returns the client's socket, on
\* which the client has written its script and may have closed its end,
\* and a PreSession is made for it
SocksAccept(fd, written, eof) ==
    /\ Alive /\ socks.pc = "poll"
    /\ fd \notin DOMAIN sockets
    /\ \E W \in {PreSession_init([World EXCEPT !.sockets = Put(@, fd, NewSocket(written, eof))],
                                 fd)} :
          /\ SetWorld(W)
          /\ socks' = [socks EXCEPT !.pc = "top", !.fds = DOMAIN W.manager_fds]
    /\ socks_call' = [NoSocksCall EXCEPT !.op = "accept", !.fd = fd]
    /\ UNCHANGED <<now, last_call, tvars, dvars, svars, host_names_lock, section,
                   pending, readers, seen, service_pc, quit_time>>

\* a client's descriptor is readable or hung up: the callback of its
\* session, with what the system makes of getaddrinfo, connect and send.
\* An exception that run does not catch ends the thread of the proxy
SocksEvent(fd, flags, getaddrinfo, connect, send) ==
    /\ Alive /\ socks.pc = "poll"
    /\ fd \in DOMAIN manager_fds
    /\ "POLLIN" \in flags => sockets[fd].unread # << >> \/ sockets[fd].eof
    /\ "POLLHUP" \in flags => sockets[fd].eof
    /\ send # "ok" => sockets[fd].eof /\ "POLLIN" \in flags
    /\ getaddrinfo # "ok" \/ connect # "ok" =>
           "POLLIN" \in flags /\ CallbackOf(fd) = "_handle_command"
    /\ getaddrinfo # "ok" => connect = "ok"
    /\ \E r \in {manager_event(World, fd, flags, host_names, getaddrinfo, connect, send)} :
          /\ SetWorld(r.W)
          /\ socks' = [socks EXCEPT !.pc = IF Escapes(r.exc) THEN "crashed" ELSE "top",
                                    !.fds = DOMAIN r.W.manager_fds]
          /\ socks_call' =
                IF "POLLIN" \notin flags
                THEN [NoSocksCall EXCEPT !.op = "hangup", !.fd = fd]
                ELSE [op |-> CallbackOf(fd), fd |-> fd, exc |-> r.exc,
                      created |-> r.created, address |-> r.address,
                      resolver |-> IF r.created = "ConnectSession"
                                   THEN resolver_argument(r.address, host_names)
                                   ELSE NoSocksCall.resolver,
                      getaddrinfo |-> IF r.created = "ConnectSession" THEN getaddrinfo
                                      ELSE "-",
                      connect |-> IF r.created = "ConnectSession" /\ getaddrinfo = "ok"
                                  THEN connect ELSE "-"]
    /\ UNCHANGED <<now, last_call, tvars, dvars, svars, host_names_lock, section,
                   pending, readers, seen, service_pc, quit_time>>

\* what the system makes of getaddrinfo, of connect and of send
GetaddrinfoResults == {"ok", "gaierror", "empty"}
ConnectResults == {"ok", "ConnectionRefusedError", "TimeoutError"}
SockSendResults == {"ok", "BrokenPipeError"}
PollFlags == {{"POLLIN"}, {"POLLHUP"}, {"POLLIN", "POLLHUP"}}

\* the proxy beside protocol_handler, which learns the name "a" from one
\* host of the network and the name "a.lan" from the other
NextSocks ==
    \/ ThreadStart
    \/ \E sender \in IPs :
           ThreadReceive(0, sender, send_message(AnnounceMessage(LanNameOf(sender))))
    \/ SocksStart
    \/ SocksTop
    \/ \E eof \in BOOLEAN, written \in Scripts : SocksAccept("c1", written, eof)
    \/ \E written \in FewScripts : SocksAccept("c2", written, FALSE)
    \/ \E fd \in Clients, flags \in PollFlags, getaddrinfo \in GetaddrinfoResults,
          connect \in ConnectResults, send \in SockSendResults :
           SocksEvent(fd, flags, getaddrinfo, connect, send)

SpecSocks == Init /\ [][NextSocks]_vars

\* ------------------------------------------------------------------------
\* Properties of the SOCKS proxy
\* ------------------------------------------------------------------------
\* the replies of RFC 1928 for a CONNECT that failed: ten bytes each
HostUnreachable == <<5, 4, 0, 1, 0, 0, 0, 0, 0, 0>>
ConnectionRefused == <<5, 5, 0, 1, 0, 0, 0, 0, 0, 0>>

\* the last message the proxy wrote to a descriptor
LastSent(fd) ==
    IF sockets[fd].sent = << >> THEN << >> ELSE sockets[fd].sent[Len(sockets[fd].sent)]

\* the last callback constructed a ConnectSession whose target could not
\* be resolved or reached, or refused the connection, and returned
ConnectFailed ==
    /\ socks_call.created = "ConnectSession"
    /\ socks_call.exc = "none"
    /\ socks_call.getaddrinfo # "ok" \/ socks_call.connect # "ok"

\* C31: a CONNECT whose target cannot be resolved or reached is answered
\* with the ten bytes of reply 0x04, one whose target refuses the
\* connection with the ten bytes of reply 0x05; in both cases the session
\* holds no descriptor any more and the client's socket is closed and
\* unknown to the manager
C31_ErrorReplies ==
    ConnectFailed =>
        /\ LastSent(socks_call.fd) =
               IF socks_call.connect = "ConnectionRefusedError"
               THEN ConnectionRefused
               ELSE HostUnreachable
        /\ Len(LastSent(socks_call.fd)) = 10
        /\ ~sockets[socks_call.fd].open
        /\ socks_call.fd \notin DOMAIN manager_fds
        /\ sessions[Len(sessions)].fds = EmptyMap

\* the host without its one trailing ".lan"
Label(address) == SubSeq(address, 1, Len(address) - Len(LAN))

\* what the resolver is to be handed for a requested host
Resolved(address, b) ==
    IF ~endswith(address, LAN) THEN [ip |-> "-", name |-> address]
    ELSE IF name_in_inverse(b, Label(address))
    THEN [ip |-> owner_of(b, Label(address)), name |-> << >>]
    ELSE [ip |-> "-", name |-> Label(address)]

\* C32: when a CONNECT resolves its host, a host that ends in ".lan" is
\* looked up, without that one suffix, among the names of host_names, and
\* the ip of the name is the target if there is one, the label is handed
\* to the system resolver if there is none; any other host is handed to
\* the system resolver as it is
C32_Step ==
    sockets' # sockets /\ socks_call'.created = "ConnectSession" =>
        socks_call'.resolver = Resolved(socks_call'.address, host_names)

C32_Resolution == [][C32_Step]_vars

\* the sessions of the given types that were made for a client
SessionsOf(fd, types) ==
    {s \in 1..Len(sessions) : sessions[s].client = fd /\ sessions[s].type \in types}

CommandSessions == {"ConnectSession", "BindSession", "AssociateSession"}

\* the methods a greeting offers: its second byte counts them
Offered(greeting) ==
    {greeting[i] : i \in 3..Min(Len(greeting), 2 + greeting[2])}

\* the greeting is whole on the socket
WholeGreeting(greeting) == Len(greeting) >= 2 /\ Len(greeting) >= 2 + greeting[2]

\* a client has one PreSession; a command was read from it only after the
\* reply 05 00 was the first thing written to it; it has at most one
\* session for a command; a session constructed for a client that has not
\* hung up left the descriptor open, and registered unless it is a BIND;
\* a client that was answered 05 FF got nothing else, has no session for a
\* command, and its descriptor is closed and unknown to the manager
C38_State ==
    /\ \A fd \in DOMAIN manager_fds : sockets[fd].open
    /\ \A fd \in Clients \cap DOMAIN sockets :
          /\ Cardinality(SessionsOf(fd, {"PreSession"})) = 1
          /\ Cardinality(SessionsOf(fd, CommandSessions)) <= 1
          /\ SessionsOf(fd, CommandSessions) # {} =>
                 sockets[fd].sent # << >> /\ sockets[fd].sent[1] = <<5, 0>>
          /\ sessions[CHOOSE s \in SessionsOf(fd, {"PreSession"}) : TRUE].has_authenticated =>
                 sockets[fd].sent # << >> /\ sockets[fd].sent[1] = <<5, 0>>
          /\ LastSent(fd) = <<5, 255>> =>
                 /\ sockets[fd].sent = << <<5, 255>> >>
                 /\ ~sockets[fd].open
                 /\ fd \notin DOMAIN manager_fds
                 /\ SessionsOf(fd, CommandSessions) = {}
    /\ socks_call.op = "_handle_command" =>
          sockets[socks_call.fd].sent[1] = <<5, 0>>
    /\ /\ socks_call.created \in CommandSessions
       /\ socks_call.exc = "none"
       /\ socks_call.created = "ConnectSession" =>
              socks_call.getaddrinfo = "ok" /\ socks_call.connect = "ok"
       /\ ~sockets[socks_call.fd].eof
       => /\ sockets[socks_call.fd].open
          /\ sessions[Len(sessions)].type = socks_call.created
          /\ sessions[Len(sessions)].client = socks_call.fd
          /\ socks_call.created # "BindSession" =>
                 /\ socks_call.fd \in DOMAIN manager_fds
                 /\ manager_fds[socks_call.fd] = Len(sessions)

\* the first callback that reads from a connection answers the greeting: 05 00 if it
\* offers method 0x00, and the client stays registered with its PreSession
\* unless it has hung up; 05 FF if it does not, and the client is closed;
\* no session is constructed by it
C38_Step ==
    \A fd \in Clients \cap DOMAIN sockets :
        /\ sockets'[fd].unread # sockets[fd].unread
        /\ sockets[fd].sent = << >>
        => /\ socks_call'.op = "_authenticate"
           /\ socks_call'.created = "-"
           /\ Len(sessions') = Len(sessions)
           /\ socks_call'.exc = "none" =>
                  /\ WholeGreeting(sockets[fd].unread)
                  /\ sockets'[fd].sent =
                         IF 0 \in Offered(sockets[fd].unread)
                         THEN << <<5, 0>> >> ELSE << <<5, 255>> >>
                  /\ 0 \in Offered(sockets[fd].unread) /\ ~sockets[fd].eof =>
                         /\ sockets'[fd].open
                         /\ fd \in DOMAIN manager_fds'
                         /\ sessions'[manager_fds'[fd]].type = "PreSession"
                  /\ 0 \notin Offered(sockets[fd].unread) =>
                         ~sockets'[fd].open /\ fd \notin DOMAIN manager_fds'

\* C38: no command of a SOCKS connection is handled before its greeting
\* was answered with 05 00; a greeting without method 0x00 is answered
\* with 05 FF and ends the connection without a session; a connection is
\* handed to at most one CONNECT, BIND or UDP-ASSOCIATE session, open
C38_Negotiated == [](C38_State) /\ [][C38_Step]_vars

\* one client was handed to a session for its command while another was
\* refused
C38_Witness ==
    /\ socks_call.created \in CommandSessions
    /\ socks_call.exc = "none"
    /\ sockets[socks_call.fd].open
    /\ sockets[socks_call.fd].sent[1] = <<5, 0>>
    /\ \E fd \in DOMAIN sockets : LastSent(fd) = <<5, 255>>

\* ------------------------------------------------------------------------
\* Properties of the announce engine: the sweep, the buffers, the queries
\* ------------------------------------------------------------------------
\* the peer is in none of the four structures, old_name being the name it
\* had
Erased(peer, old_name) ==
    /\ peer \notin DOMAIN peer_last_announce_time'
    /\ peer \notin DOMAIN peer_buffers'
    /\ peer \notin DOMAIN ip_to_host'
    /\ peer \notin Get(host_to_ips', old_name, {})

\* the peer's entries are what they were
Kept(peer) ==
    /\ peer \in DOMAIN peer_last_announce_time'
    /\ peer_last_announce_time'[peer] = peer_last_announce_time[peer]
    /\ peer \in DOMAIN peer_buffers' /\ peer_buffers'[peer] = peer_buffers[peer]
    /\ peer \in DOMAIN ip_to_host' /\ ip_to_host'[peer] = ip_to_host[peer]
    /\ peer \in Get(host_to_ips', ip_to_host[peer], {})

\* a step in which on_announce_timeout got past its throttle, which sets
\* last_announce_time, and returned: of the peers whose datagram that poll
\* did not deliver, those that announced more than ANNOUNCE_TTL before are
\* erased and the others kept
C33_Step ==
    (last_announce_time' # last_announce_time /\ last_call'.exc = "none") =>
        \A peer \in (DOMAIN peer_last_announce_time) \ {last_call'.ip} :
            IF now' - peer_last_announce_time[peer] > ANNOUNCE_TTL
            THEN Erased(peer, ip_to_host[peer])
            ELSE Kept(peer)

\* C33: whenever on_announce_timeout performs its TTL sweep, every peer
\* with now - peer_last_announce_time[peer] > ANNOUNCE_TTL is removed from
\* peer_last_announce_time, peer_buffers, ip_to_host and the host_to_ips
\* set of its name, and the entries of every other peer are left as they
\* were in all four
C33_SweepFrame == [][C33_Step]_vars

\* a sweep has just erased one peer and kept another, which announced
\* before that poll
C33_Witness ==
    /\ last_call.ticked /\ last_call.due /\ last_call.exc = "none"
    /\ last_call.dropped # {}
    /\ \E peer \in DOMAIN ip_to_host :
          /\ peer # last_call.ip
          /\ Age(peer) > 0 /\ Age(peer) <= ANNOUNCE_TTL
          /\ peer \in DOMAIN peer_buffers

\* the datagram a poll delivered
Delivered(digest) == CHOOSE dg \in Datagrams : Digest(dg) = digest

\* the peer's buffer with the datagram appended
WithDatagram(host, data) == Get(peer_buffers, host, << >>) \o data

\* what follows the leading complete frames of a buffer
Remainder(buffer) == Slice(buffer, PACKET_SIZE * (Len(buffer) \div PACKET_SIZE))

\* the first frame of the buffer is a valid Announce
FirstIsAnnounce(buffer) ==
    /\ Len(buffer) >= PACKET_SIZE
    /\ parses(SubSeq(buffer, 1, PACKET_SIZE))
    /\ unserialize(SubSeq(buffer, 1, PACKET_SIZE)).ok

\* on_message returned r for the datagram data of host at t: the buffer of
\* host is the remainder of what it held with the datagram appended, short
\* of a frame; a frame that the datagram completed was processed, and
\* nothing was processed if it completed none
Extracted(r, host, data, t) ==
    /\ host \in DOMAIN r.E.peer_buffers
    /\ r.E.peer_buffers[host] = Remainder(WithDatagram(host, data))
    /\ Len(r.E.peer_buffers[host]) < PACKET_SIZE
    /\ \A other \in (DOMAIN peer_buffers) \ {host} :
           r.E.peer_buffers[other] = peer_buffers[other]
    /\ IF FirstIsAnnounce(WithDatagram(host, data))
       THEN /\ r.E.peer_last_announce_time[host] = t
            /\ r.E.ip_to_host[host] =
                   unserialize(SubSeq(WithDatagram(host, data), 1, PACKET_SIZE)).hostname
       ELSE /\ r.E.peer_last_announce_time = peer_last_announce_time
            /\ r.E.ip_to_host = ip_to_host
            /\ r.E.host_to_ips = host_to_ips

\* a poll that delivers a datagram: what on_message makes of it, and the
\* buffer the poll leaves to a peer that its sweep does not drop
C34_Step ==
    last_call'.op = "net" =>
        \E host \in {last_call'.ip} :
        \E data \in {Delivered(last_call'.data)} :
        \E r \in {on_message(Engine, host, data, now')} :
            r.exc = "none" =>
                /\ Extracted(r, host, data, now')
                /\ last_call'.exc = "none" /\ host \notin last_call'.dropped =>
                       peer_buffers'[host] = Remainder(WithDatagram(host, data))

\* C34: after on_message returns, peer_buffers[sender] is what it held
\* followed by the datagram, without the leading complete 512-byte frames,
\* so shorter than 512 bytes; a short remainder stays as it is, in its
\* place, and a frame that came in two datagrams is processed once, in
\* the call that brings its last byte
C34_Conserved == [][C34_Step]_vars

\* the second half of a frame has just arrived: the frame was processed
\* and the buffer is empty
C34_Witness ==
    /\ last_call.op = "net" /\ last_call.exc = "none"
    /\ last_call.data = Digest(Truncated)
    /\ last_call.ip \in DOMAIN ip_to_host
    /\ peer_last_announce_time[last_call.ip] = now
    /\ peer_buffers[last_call.ip] = << >>

\* C35: every complete valid 512-byte Announce that a poll delivers leaves
\* its sender mapped to the hostname it announces, with the time of that
\* poll as the time of its last announce, whatever datagrams the sender's
\* address sent before
C35_Step ==
    (last_call'.op = "net" /\ Delivered(last_call'.data) \in Announces) =>
        /\ Get(ip_to_host', last_call'.ip, << >>) = last_call'.data.field
        /\ Get(peer_last_announce_time', last_call'.ip, 0) = now'

C35_AnnounceApplied == [][C35_Step]_vars

\* ------------------------------------------------------------------------
\* C36: within the reactor thread a control query sees what the polls
\* before it did: the query dispatched in the poll after an Announce was
\* processed returns the announced mapping (the name for the peer's ip, the
\* ip among the addresses of the name, both in the whole map), the query
\* dispatched in the poll after a sweep returns none of the peers the sweep
\* evicted, and the two maps a query reads agree with each other.
\* ------------------------------------------------------------------------
\* the poll before this one processed an Announce and returned
AnnounceProcessed ==
    /\ last_call.op = "net" /\ last_call.exc = "none"
    /\ last_call.data.len = PACKET_SIZE /\ last_call.data.header = HEADER

\* the addresses a NameIPMapping reply lists, under any name
AddressesIn(reply) == UNION {Elems(reply.name_ips[h]) : h \in DOMAIN reply.name_ips}

\* a reply tells of the peer ip
Mentions(reply, ip) ==
    \/ reply.type = "ip" /\ ip \in Elems(reply.ip_addrs)
    \/ reply.type = "nameipmapping" /\ ip \in AddressesIn(reply)

C36_Step ==
    last_call'.op = "control" =>
        /\ AnnounceProcessed =>
              /\ last_call'.msg = IP(<<last_call.ip>>)
                    => replies' = <<Host(last_call.data.field)>>
              /\ last_call'.msg = Host(last_call.data.field)
                    => /\ Len(replies') = 1
                       /\ last_call.ip \in Elems(replies'[1].ip_addrs)
              /\ last_call'.msg = GetAll
                    => /\ Len(replies') = 1
                       /\ last_call.data.field \in DOMAIN replies'[1].name_ips
                       /\ last_call.ip
                              \in Elems(replies'[1].name_ips[last_call.data.field])
        /\ \A ip \in last_call.dropped :
              /\ \A i \in DOMAIN replies' : ~Mentions(replies'[i], ip)
              /\ last_call'.msg = IP(<<ip>>) => replies' = <<Host("None")>>
        /\ \A i \in DOMAIN replies' :
              /\ replies'[i].type = "ip"
                    => Elems(replies'[i].ip_addrs)
                           = {ip \in DOMAIN ip_to_host :
                                  ip_to_host[ip] = last_call'.msg.hostname}
              /\ replies'[i].type = "nameipmapping"
                    => \A ip \in IPs :
                           ip \in DOMAIN ip_to_host <=> ip \in AddressesIn(replies'[i])

C36_Visible == [][C36_Step]_vars

\* ------------------------------------------------------------------------
\* C37: the control engine's client state stays consistent.  After every
\* callback the keys of clients, the keys of client_buffers and the client
\* descriptors bound READABLE on the reactor are the same set; a client
\* whose recv returns nothing or raises OSError is removed from all three
\* and its socket is closed; after close() no client is left, neither a
\* client nor the listening socket is bound, and every client was closed
\* before the listening socket.
\* ------------------------------------------------------------------------
\* the descriptors of clients that the reactor has bound READABLE
BoundClients ==
    {fd \in (DOMAIN fd_events) \ {"udp", "ctl"} :
        /\ READABLE \in fd_events[fd]
        /\ Get(callbacks, <<fd, READABLE>>, "EMPTY_CALLBACK") = "on_message_recv"}

\* the reactor knows nothing of fd
Unbound(fd) ==
    /\ fd \notin DOMAIN fd_events
    /\ fd \notin DOMAIN pollster
    /\ \A e \in Events : <<fd, e>> \notin DOMAIN callbacks

C37_State ==
    /\ DOMAIN client_buffers = clients
    /\ BoundClients = clients
    /\ \A fd \in Elems(closed_socks) : fd \notin clients /\ Unbound(fd)

\* the client fd is gone from the engine and the reactor, its socket closed
Removed(fd) ==
    /\ fd \notin clients' /\ fd \notin DOMAIN client_buffers'
    /\ Unbound(fd)'
    /\ closed_socks' = Append(closed_socks, fd)

C37_Step ==
    /\ \A fd \in clients, n \in {3, BUFFER_SIZE} :
          (\/ PollRecv(fd, n, "OSError", <<"10.0.0.1", "10.0.0.2">>, "ok")
           \/ (wire[fd] = << >>
                 /\ PollRecv(fd, n, "ok", <<"10.0.0.1", "10.0.0.2">>, "ok")))
              => Removed(fd)
    /\ Shutdown =>
          /\ pc' = "stopped"
          /\ clients' = {} /\ client_buffers' = EmptyMap
          /\ \A fd \in clients \cup {"ctl"} : Unbound(fd)'
          /\ Len(closed_socks') = Len(closed_socks) + Cardinality(clients) + 1
          /\ closed_socks'[Len(closed_socks')] = "ctl"
          /\ SubSeq(closed_socks', 1, Len(closed_socks)) = closed_socks
          /\ \A fd \in clients :
                \E i \in (Len(closed_socks) + 1)..(Len(closed_socks') - 1) :
                    closed_socks'[i] = fd

C37_Consistent == [](C37_State) /\ [][C37_Step]_vars

\* the engine was closed after it had served two clients
C37_Witness ==
    /\ pc = "stopped"
    /\ Len(closed_socks) = 3
    /\ last_call.op = "close"
    /\ clients = {}

\* ------------------------------------------------------------------------
\* C39: the queries of the announce engine are read-only.  A poll that
\* dispatches a control request (query_host for Host, query_ip for IP,
\* get_host_ip_map for GetAll), for a known or an unknown argument, leaves
\* ip_to_host, host_to_ips with its set of keys, peer_buffers,
\* peer_last_announce_time and last_announce_time as the step callbacks of
\* that poll alone leave them, and as they were if the poll raises.
\* ------------------------------------------------------------------------
\* the engine after the step callbacks of a poll that returns at now'
AfterStep == run_step_callbacks(Engine, now', "ok").E

C39_Step ==
    last_call'.op = "control" =>
        \E E \in {IF last_call'.exc = "none" THEN AfterStep ELSE Engine} :
            /\ ip_to_host' = E.ip_to_host
            /\ host_to_ips' = E.host_to_ips
            /\ DOMAIN host_to_ips' = DOMAIN E.host_to_ips
            /\ peer_buffers' = E.peer_buffers
            /\ peer_last_announce_time' = E.peer_last_announce_time
            /\ last_announce_time' = E.last_announce_time

C39_ReadOnly == [][C39_Step]_vars

\* ------------------------------------------------------------------------
\* C40: after any sequence of on_message and on_announce_timeout calls the
\* keys of peer_last_announce_time are the keys of ip_to_host, all of them
\* keys of peer_buffers, and every ip of ip_to_host is a member of
\* host_to_ips[ip_to_host[ip]]; so the sweep raises no KeyError for any
\* peer it drops, whenever it drops it.
\* ------------------------------------------------------------------------
C40_KeySets ==
    /\ DOMAIN peer_last_announce_time = DOMAIN ip_to_host
    /\ DOMAIN ip_to_host \subseteq DOMAIN peer_buffers
    /\ \A ip \in DOMAIN ip_to_host :
          /\ ip_to_host[ip] \in DOMAIN host_to_ips
          /\ ip \in host_to_ips[ip_to_host[ip]]
    /\ \A peer \in DOMAIN peer_last_announce_time :
          drop_peer(Engine, peer).exc = "none"
    /\ last_call.exc # "KeyError"

\* the sweep has dropped a peer while another peer, which sent a truncated
\* datagram only, has a buffer and no name
C40_Witness ==
    /\ last_call.dropped # {}
    /\ last_call.exc = "none"
    /\ \E peer \in DOMAIN peer_buffers :
          peer \notin DOMAIN ip_to_host /\ peer_buffers[peer] # << >>

====
